---- MODULE Spec2Model ----
(***************************************************************************)
(* Model of the analysis scripts of caddy-and-schneider-2024:               *)
(*   python/shared_tools.py           the snapshot pipeline and Link Table  *)
(*   python/advecting-field-loop.py   load_data (b^2 mean and divergence)   *)
(*   python/linear-wave-convergence.py computeL2Norm                        *)
(*   python/get_links.py              the Link Table reader                 *)
(*                                                                         *)
(* Numbers.  numpy float64 values are modelled as exact rationals extended  *)
(* with the IEEE non-finite values: <<n, d>> with d > 0 and gcd(n, d) = 1   *)
(* is the rational n/d, <<1, 0>> is +inf, <<-1, 0>> is -inf and <<0, 0>> is  *)
(* NaN.  Rounding and signed zeros are not modelled: every statement about  *)
(* a finite value is a statement about the formula in exact arithmetic.     *)
(* Arrays are indexed from 0 as in Python.                                  *)
(***************************************************************************)
EXTENDS Integers, Sequences, FiniteSets, TLC

\* ------------------------------------------------------------------ bounds
\* largest number of cells per axis of a generated snapshot
MaxN == 2
\* generated snapshots are numbered 0..MaxSeed
MaxSeed == 11

\* ------------------------------------------------------------- arithmetic
IAbs(n) == IF n < 0 THEN -n ELSE n

ISign(n) == IF n > 0 THEN 1 ELSE IF n < 0 THEN -1 ELSE 0

RECURSIVE GCD(_, _)
GCD(a, b) == IF b = 0 THEN a ELSE GCD(b, a % b)

\* the float with value n/d (d may be negative or zero)
Norm(n, d) ==
  IF d = 0 THEN <<ISign(n), 0>>
  ELSE LET g == GCD(IAbs(n), IAbs(d))
           s == ISign(d)
       IN  <<(s * n) \div g, IAbs(d) \div g>>

Rat(n, d) == Norm(n, d)
Zero == <<0, 1>>
One == <<1, 1>>
Half == <<1, 2>>
NaN == <<0, 0>>
PosInf == <<1, 0>>
NegInf == <<-1, 0>>

IsNaN(a) == a = NaN
IsFinite(a) == a[2] # 0
IsInf(a) == a[2] = 0 /\ a[1] # 0

\* a + b in IEEE arithmetic: NaN propagates, inf + -inf is NaN
FAdd(a, b) ==
  IF IsNaN(a) \/ IsNaN(b) THEN NaN
  ELSE IF IsInf(a) /\ IsInf(b) THEN (IF a = b THEN a ELSE NaN)
  ELSE IF IsInf(a) THEN a
  ELSE IF IsInf(b) THEN b
  ELSE LET g == GCD(a[2], b[2])
       IN  Norm(a[1] * (b[2] \div g) + b[1] * (a[2] \div g), (a[2] \div g) * b[2])

FNeg(a) == <<-a[1], a[2]>>

FSub(a, b) == FAdd(a, FNeg(b))

\* a * b in IEEE arithmetic: 0 * inf is NaN
FMul(a, b) ==
  IF IsNaN(a) \/ IsNaN(b) THEN NaN
  ELSE IF IsInf(a) \/ IsInf(b) THEN <<ISign(a[1]) * ISign(b[1]), 0>>
  ELSE Norm(a[1] * b[1], a[2] * b[2])

\* a / b as numpy divides float arrays: x/0 is +-inf (a warning, no
\* exception), 0/0 and inf/inf are NaN, x/inf is 0
FDiv(a, b) ==
  IF IsNaN(a) \/ IsNaN(b) THEN NaN
  ELSE IF IsInf(b) THEN (IF IsInf(a) THEN NaN ELSE Zero)
  ELSE IF IsInf(a) THEN <<a[1] * (IF b[1] < 0 THEN -1 ELSE 1), 0>>
  ELSE IF b[1] = 0 THEN <<ISign(a[1]), 0>>
  ELSE Norm(a[1] * b[2], a[2] * b[1])

FSquare(a) == FMul(a, a)

FAbs(a) == <<IAbs(a[1]), a[2]>>

\* a < b for values that are not NaN
FLess(a, b) ==
  IF a = b THEN FALSE
  ELSE IF a = NegInf \/ b = PosInf THEN TRUE
  ELSE IF a = PosInf \/ b = NegInf THEN FALSE
  ELSE a[1] * b[2] < b[1] * a[2]

\* np.maximum of two values: NaN propagates
FMax2(a, b) ==
  IF IsNaN(a) \/ IsNaN(b) THEN NaN
  ELSE IF FLess(a, b) THEN b ELSE a

ISqrt(n) == CHOOSE r \in 0..n : r * r <= n /\ (r + 1) * (r + 1) > n

IsSquare(n) == ISqrt(n) * ISqrt(n) = n

\* np.sqrt.  The result is <<n, d, r>>, the r-th root of n/d: r = 1 when n/d
\* is the square of a rational (or is not finite), r = 2 otherwise.
FSqrt(a) ==
  IF IsNaN(a) \/ a = NegInf THEN <<0, 0, 1>>
  ELSE IF a = PosInf THEN <<1, 0, 1>>
  ELSE IF a[1] < 0 THEN <<0, 0, 1>>
  ELSE IF IsSquare(a[1]) /\ IsSquare(a[2]) THEN <<ISqrt(a[1]), ISqrt(a[2]), 1>>
  ELSE <<a[1], a[2], 2>>

\* ------------------------------------------------------------------ arrays
\* A numpy array: shape and the value at each index.  The arrays of a
\* snapshot have three dimensions; squeeze leaves fewer.
Idx(shape) ==
  CASE Len(shape) = 3 ->
         (0..(shape[1] - 1)) \X (0..(shape[2] - 1)) \X (0..(shape[3] - 1))
    [] Len(shape) = 2 -> (0..(shape[1] - 1)) \X (0..(shape[2] - 1))
    [] Len(shape) = 1 -> {<<i>> : i \in 0..(shape[1] - 1)}
    [] OTHER -> {<<>>}

Ndim(a) == Len(a.shape)

MkArray(shape, f(_)) == [shape |-> shape, at |-> [ix \in Idx(shape) |-> f(ix)]]

Size(a) == a.shape[1] * a.shape[2] * a.shape[3]

\* scalar op array and array op array of equal shape, element by element
ScalarMul(c, a) == MkArray(a.shape, LAMBDA ix : FMul(c, a.at[ix]))
ScalarDiv(a, c) == MkArray(a.shape, LAMBDA ix : FDiv(a.at[ix], c))
ArrAdd(a, b) == MkArray(a.shape, LAMBDA ix : FAdd(a.at[ix], b.at[ix]))
ArrSub(a, b) == MkArray(a.shape, LAMBDA ix : FSub(a.at[ix], b.at[ix]))
ArrMul(a, b) == MkArray(a.shape, LAMBDA ix : FMul(a.at[ix], b.at[ix]))
ArrDiv(a, b) == MkArray(a.shape, LAMBDA ix : FDiv(a.at[ix], b.at[ix]))
ArrSquare(a) == MkArray(a.shape, LAMBDA ix : FSquare(a.at[ix]))
ArrAbs(a) == MkArray(a.shape, LAMBDA ix : FAbs(a.at[ix]))

\* the unit step along an axis (axis is 1, 2 or 3)
Step(axis) == [i \in 1..3 |-> IF i = axis THEN 1 ELSE 0]

Shift(ix, axis) == <<ix[1] + Step(axis)[1], ix[2] + Step(axis)[2], ix[3] + Step(axis)[3]>>

\* length of a[1:] and of a[:-1] for a sequence of length n
DropOne(n) == IF n > 0 THEN n - 1 ELSE 0

ShapeDropOne(shape, axis) ==
  [i \in 1..3 |-> IF i = axis THEN DropOne(shape[i]) ELSE shape[i]]

\* a[1:, :, :] (axis 1), a[:, 1:, :] (axis 2), a[:, :, 1:] (axis 3)
SliceFromOne(a, axis) ==
  MkArray(ShapeDropOne(a.shape, axis), LAMBDA ix : a.at[Shift(ix, axis)])

\* a[:-1, :, :] (axis 1), a[:, :-1, :] (axis 2), a[:, :, :-1] (axis 3)
SliceToLast(a, axis) ==
  MkArray(ShapeDropOne(a.shape, axis), LAMBDA ix : a.at[ix])

\* the elements of an array in C order, as numpy reduces them
Flat(a) ==
  LET ny == a.shape[2]
      nz == a.shape[3]
  IN  [p \in 1..Size(a) |->
         a.at[<<(p - 1) \div (ny * nz), ((p - 1) \div nz) % ny, (p - 1) % nz>>]]

\* s[lo] + ... + s[hi], summed pairwise as numpy's add.reduce does; the sum
\* of no elements is 0.0
RECURSIVE SumRange(_, _, _)
SumRange(s, lo, hi) ==
  IF lo > hi THEN Zero
  ELSE IF lo = hi THEN s[lo]
  ELSE LET mid == (lo + hi) \div 2
       IN  FAdd(SumRange(s, lo, mid), SumRange(s, mid + 1, hi))

SeqSum(s) == SumRange(s, 1, Len(s))

\* the largest of s[lo], ..., s[hi], for lo <= hi
RECURSIVE MaxRange(_, _, _)
MaxRange(s, lo, hi) ==
  IF lo = hi THEN s[lo]
  ELSE LET mid == (lo + hi) \div 2
       IN  FMax2(MaxRange(s, lo, mid), MaxRange(s, mid + 1, hi))

SeqMax(s) == MaxRange(s, 1, Len(s))

\* np.sum, np.mean and np.max over all elements
ArrSum(a) == SeqSum(Flat(a))
ArrMean(a) == FDiv(ArrSum(a), <<Size(a), 1>>)
ArrMax(a) == SeqMax(Flat(a))

\* ---------------------------------------------------------- snapshot files
\* A snapshot file as the simulation writes it: the attributes dims, gamma, t
\* and dx, and eight datasets.  The cell-centred datasets have shape
\* (nx, ny, nz); each magnetic component is face-centred and has one more
\* point along its own axis.
Two == <<2, 1>>
Three == <<3, 1>>

CellFields == {"density", "Energy", "momentum_x", "momentum_y", "momentum_z"}
RawKeys == {"density", "energy", "momentum_x", "momentum_y", "momentum_z",
            "magnetic_x", "magnetic_y", "magnetic_z"}

RawKey(axis) == <<"magnetic_x", "magnetic_y", "magnetic_z">>[axis]
CenteredKey(axis) == <<"magnetic_x_centered", "magnetic_y_centered", "magnetic_z_centered">>[axis]

FaceShape(res, axis) == [i \in 1..3 |-> IF i = axis THEN res[i] + 1 ELSE res[i]]

DensityVals == <<One, Two, Zero, Half>>
EnergyVals == <<Three, <<5, 2>>, One, <<10, 1>>>>
MomentumVals == <<Zero, One, <<-1, 1>>, Two, <<-3, 2>>>>
MagneticVals == <<Zero, One, <<-1, 1>>, Half, Two>>
Gammas == <<<<5, 3>>, <<7, 5>>, Two>>
Spacings == <<<<Half, Half, Half>>, <<One, Half, <<1, 4>>>>, <<Two, Two, One>>>>

Pick(vals, h) == vals[(h % Len(vals)) + 1]

\* the value a generated snapshot number seed holds in field number salt at ix
Mix(seed, salt, ix) ==
  (seed + 1) * (2 * salt + 1) + (seed \div 3)
  + (seed + salt + 1) * ix[1] + (2 * seed + 3 * salt + 1) * ix[2]
  + (3 * seed + salt + 2) * ix[3]

GenArray(shape, vals, seed, salt) ==
  MkArray(shape, LAMBDA ix : Pick(vals, Mix(seed, salt, ix)))

Uniform(shape, v) == MkArray(shape, LAMBDA ix : v)

MkFile(res, gamma, t, dx, rho, en, mx, my, mz, bx, by, bz) ==
  [attrs |-> [dims |-> res, gamma |-> gamma, t |-> t, dx |-> dx],
   datasets |-> [density |-> rho, Energy |-> en,
                 momentum_x |-> mx, momentum_y |-> my, momentum_z |-> mz,
                 magnetic_x |-> bx, magnetic_y |-> by, magnetic_z |-> bz]]

GenFile(res, seed) ==
  MkFile(res, Pick(Gammas, seed), <<seed, 10>>, Pick(Spacings, seed \div 2),
         GenArray(res, DensityVals, seed, 0),
         GenArray(res, EnergyVals, seed, 1),
         GenArray(res, MomentumVals, seed, 2),
         GenArray(res, MomentumVals, seed, 3),
         GenArray(res, MomentumVals, seed, 4),
         GenArray(FaceShape(res, 1), MagneticVals, seed, 5),
         GenArray(FaceShape(res, 2), MagneticVals, seed, 6),
         GenArray(FaceShape(res, 3), MagneticVals, seed, 7))

\* a snapshot whose fields are uniform: density rho, momentum m in every
\* component, energy en and magnetic field b = <<Bx, By, Bz>> on all faces
UniformFile(res, gamma, dx, rho, m, en, b) ==
  MkFile(res, gamma, Zero, dx,
         Uniform(res, rho), Uniform(res, en),
         Uniform(res, m), Uniform(res, m), Uniform(res, m),
         Uniform(FaceShape(res, 1), b[1]),
         Uniform(FaceShape(res, 2), b[2]),
         Uniform(FaceShape(res, 3), b[3]))

Resolutions == (1..MaxN) \X (1..MaxN) \X (1..MaxN)
Seeds == 0..MaxSeed

\* the 4 x 4 x 4 grid of the worked example
ExampleRes == <<4, 4, 4>>
UniformMagnetic == {<<One, Zero, Zero>>, <<Zero, Half, Zero>>, <<Two, <<-1, 1>>, Half>>}

GenFiles == {GenFile(res, seed) : res \in Resolutions, seed \in Seeds}

UniformFiles ==
  {UniformFile(res, Pick(Gammas, 0), dx, rho, m, Three, b) :
     res \in {ExampleRes, <<1, 1, 1>>}, dx \in {Spacings[1], Spacings[2]},
     rho \in {One, Two}, m \in {Zero, One}, b \in UniformMagnetic}

SnapshotFiles == GenFiles \cup UniformFiles

\* ------------------------------------------------------- the data mapping
\* A Python dict: a function whose domain is the set of keys present.
EmptyDict == [k \in {} |-> Zero]

Put(d, k, v) == [kk \in DOMAIN d \cup {k} |-> IF kk = k THEN v ELSE d[kk]]

Has(d, k) == k \in DOMAIN d

\* the file a name resolves to when there is none, and the test for a file
NoFile == <<>>
Exists(f) == DOMAIN f # {}

VARIABLES
  file,           \* the snapshot file the pipeline loads
  data,           \* the data mapping the pipeline functions are applied to
  err,            \* the exception that ended the run, or "none"
  gam,            \* the gamma compute_derived_quantities was last called with
  largs,          \* the four flags load_conserved_data was called with
  opens,          \* number of times h5py.File was called
  cut,            \* the locations of the slice_data calls that returned
  dir,            \* advecting-field-loop: the snapshot files afl_n{res}_{i}
  pc,             \* advecting-field-loop: the statement main has reached
  ld_res,         \* load_data: position in the resolutions list
  ld_i,           \* load_data: the time index i
  b_squared_avg,  \* load_data: one series per resolution
  divergence,     \* load_data: one series per resolution
  times,          \* load_data: one series per resolution
  sl,             \* load_slices: number of load_slice calls begun
  l2files,        \* linear-wave-convergence: the initial and final snapshots
  l2_pos,         \* computeL2Norm: iterations of the main loop completed
  l2norms,        \* computeL2Norm: the dictionary `data` of series
  pkl,            \* the Link Table file links.pkl
  head,           \* the commit git rev-parse HEAD names, or "none"
  stored,         \* the link each update_plot_entry call stored, by key
  got,            \* the key of the last get_links run, or "none"
  out,            \* what the last get_links run printed
  lerr,           \* the exception that ended the last Link Table call
  procs,          \* concurrent update_plot_entry calls: where each one is
  overlapped,     \* a call read the table while another was between read and write
  cmd,            \* the command line of the last script run
  ran,            \* the calls main made in the last script run, in order
  exit,           \* how the last script run ended
  writers,        \* by key, the scripts that passed it to update_plot_entry
  runs,           \* number of script runs so far
  rundir,         \* the run directory: by file name, the invocation that wrote it
  datadir,        \* the data directory: by file name, the output moved there
  sweep,          \* the runner being executed and its position in its loop
  rerr,           \* the exception that ended the runner
  launch,         \* the last invocation of the executable
  lost,           \* kept outputs a later iteration's rename replaced
  rank_dirs,      \* scaling_plots: by rank directory, whether it and its log exist
  scaling_data,   \* scaling_plots load_data: the columns of the frame, in order
  printed,        \* scaling_plots load_data: the lines printed
  sc_err          \* scaling_plots load_data: how the call ended

pipeVars == <<file, data, err, gam, largs, opens, cut>>
aflVars == <<dir, pc, ld_res, ld_i, b_squared_avg, divergence, times, sl>>
l2Vars == <<l2files, l2_pos, l2norms>>
linkVars == <<pkl, head, stored, got, out, lerr>>
concVars == <<procs, overlapped>>
mainVars == <<cmd, ran, exit, writers, runs>>
runVars == <<rundir, datadir, sweep, rerr, launch, lost>>
scaleVars == <<rank_dirs, scaling_data, printed, sc_err>>
restVars == <<l2Vars, linkVars, concVars, mainVars, runVars, scaleVars>>
vars == <<pipeVars, aflVars, restVars>>

\* ------------------------------------------------------------- slice_data
\* a slice location that was not given (the default None)
None == -1

\* the locations slice_data is called with along one axis: none, or the
\* plane SliceAt (the last plane of an axis of MaxN cells)
SliceAt == 1
SliceLocs == {None, SliceAt}

IMin(a, b) == IF a < b THEN a ELSE b

\* limits: the bounds low_lim, high_lim of the slice along an axis of length n
limits(slice_loc, n) ==
  IF slice_loc = None THEN <<0, n>> ELSE <<slice_loc, slice_loc + 1>>

\* number of elements of a[low:high] for a sequence of length n, 0 <= low
SliceLen(lim, n) == IMin(lim[2], n) - IMin(lim[1], n)

\* a[x_low:x_high, y_low:y_high, z_low:z_high] of an array of three dimensions
Sliced(a, locs) ==
  LET lim == [i \in 1..3 |-> limits(locs[i], a.shape[i])]
  IN  MkArray(<<SliceLen(lim[1], a.shape[1]), SliceLen(lim[2], a.shape[2]),
                SliceLen(lim[3], a.shape[3])>>,
              LAMBDA ix : a.at[<<ix[1] + lim[1][1], ix[2] + lim[2][1],
                                 ix[3] + lim[3][1]>>])

\* the axes squeeze keeps: those whose length is not 1
KeptAxes(shape) == SelectSeq(<<1, 2, 3>>, LAMBDA i : shape[i] # 1)

\* position of axis i among the kept axes
KeptPos(kept, i) == CHOOSE j \in 1..Len(kept) : kept[j] = i

\* squeeze of an array of three dimensions
Squeeze(a) ==
  LET kept == KeptAxes(a.shape)
      Old(jx, i) == IF \E j \in 1..Len(kept) : kept[j] = i
                      THEN jx[KeptPos(kept, i)] ELSE 0
  IN  MkArray([j \in 1..Len(kept) |-> a.shape[kept[j]]],
              LAMBDA jx : a.at[<<Old(jx, 1), Old(jx, 2), Old(jx, 3)>>])

\* the keys in the order `for key in data` visits them: the order of
\* insertion, metadata and raw fields by load_conserved_data, then what the
\* transforms added
KeyOrder ==
  <<"resolution", "gamma", "time", "dx", "density", "energy",
    "momentum_x", "momentum_y", "momentum_z",
    "magnetic_x", "magnetic_y", "magnetic_z",
    "magnetic_x_centered", "magnetic_y_centered", "magnetic_z_centered",
    "velocity_x", "velocity_y", "velocity_z",
    "spec_kinetic", "magnetic_energy", "gas_pressure", "total_pressure">>

\* the value under a key is an array of three dimensions
IsVolume(d, key) == key \notin {"resolution", "gamma", "time", "dx"} /\ Ndim(d[key]) = 3

\* slice_data from position i of the loop on: 'resolution' and 'gamma' are
\* skipped; a value of fewer than three dimensions (the metadata 'time' and
\* 'dx', an array already squeezed) raises IndexError in limits or in the
\* indexing, and the entries sliced before it stay sliced
RECURSIVE SliceFrom(_, _, _)
SliceFrom(d, locs, i) ==
  IF i > Len(KeyOrder) THEN [data |-> d, err |-> "none"]
  ELSE LET key == KeyOrder[i]
       IN  IF key \notin DOMAIN d \/ key \in {"resolution", "gamma"}
             THEN SliceFrom(d, locs, i + 1)
           ELSE IF ~IsVolume(d, key) THEN [data |-> d, err |-> "IndexError"]
           ELSE SliceFrom(Put(d, key, Squeeze(Sliced(d[key], locs))), locs, i + 1)

slice_data(d, x_slice_loc, y_slice_loc, z_slice_loc) ==
  SliceFrom(d, <<x_slice_loc, y_slice_loc, z_slice_loc>>, 1)

\* ---------------------------------------------------------- shared_tools
\* a slip: gamma loaded whenever the resolution is asked for
load_gamma_with_resolution(f, load_gamma, load_resolution, load_time, load_dx) ==
  LET o1 == IF load_resolution THEN Put(EmptyDict, "resolution", f.attrs.dims) ELSE EmptyDict
      o2 == IF load_resolution THEN Put(o1, "gamma", f.attrs.gamma) ELSE o1
      o3 == IF load_time THEN Put(o2, "time", f.attrs.t) ELSE o2
      o4 == IF load_dx THEN Put(o3, "dx", f.attrs.dx) ELSE o3
      o5 == Put(o4, "density", f.datasets.density)
      o6 == Put(o5, "energy", f.datasets.Energy)
      o7 == Put(o6, "momentum_x", f.datasets.momentum_x)
      o8 == Put(o7, "momentum_y", f.datasets.momentum_y)
      o9 == Put(o8, "momentum_z", f.datasets.momentum_z)
      o10 == Put(o9, "magnetic_x", f.datasets.magnetic_x)
      o11 == Put(o10, "magnetic_y", f.datasets.magnetic_y)
  IN  Put(o11, "magnetic_z", f.datasets.magnetic_z)

\* load_conserved_data: the metadata asked for, then the eight raw fields
load_conserved_data(f, load_gamma, load_resolution, load_time, load_dx) ==
  LET o1 == IF load_resolution THEN Put(EmptyDict, "resolution", f.attrs.dims) ELSE EmptyDict
      o2 == IF load_gamma THEN Put(o1, "gamma", f.attrs.gamma) ELSE o1
      o3 == IF load_time THEN Put(o2, "time", f.attrs.t) ELSE o2
      o4 == IF load_dx THEN Put(o3, "dx", f.attrs.dx) ELSE o3
      o5 == Put(o4, "density", f.datasets.density)
      o6 == Put(o5, "energy", f.datasets.Energy)
      o7 == Put(o6, "momentum_x", f.datasets.momentum_x)
      o8 == Put(o7, "momentum_y", f.datasets.momentum_y)
      o9 == Put(o8, "momentum_z", f.datasets.momentum_z)
      o10 == Put(o9, "magnetic_x", f.datasets.magnetic_x)
      o11 == Put(o10, "magnetic_y", f.datasets.magnetic_y)
  IN  Put(o11, "magnetic_z", f.datasets.magnetic_z)

\* a slip: every component sliced along the x axis
CenteredAlongX(a, axis) ==
  ScalarMul(Half, ArrAdd(SliceFromOne(a, 1), SliceToLast(a, 1)))

\* a slip: the sum of the two faces, the factor 0.5 forgotten
CenteredNoHalf(a, axis) ==
  ArrAdd(SliceFromOne(a, axis), SliceToLast(a, axis))

\* 0.5 * (a[1:] + a[:-1]) along one axis
Centered(a, axis) ==
  ScalarMul(Half, ArrAdd(SliceFromOne(a, axis), SliceToLast(a, axis)))

\* a slip: the centred fields stored over the raw ones
center_in_place(d) ==
  LET d1 == Put(d, "magnetic_x", Centered(d["magnetic_x"], 1))
      d2 == Put(d1, "magnetic_y", Centered(d1["magnetic_y"], 2))
  IN  Put(d2, "magnetic_z", Centered(d2["magnetic_z"], 3))

center_magnetic_fields(d) ==
  LET d1 == Put(d, "magnetic_x_centered", Centered(d["magnetic_x"], 1))
      d2 == Put(d1, "magnetic_y_centered", Centered(d1["magnetic_y"], 2))
  IN  Put(d2, "magnetic_z_centered", Centered(d2["magnetic_z"], 3))

\* a slip: the velocity divided again when it is already in the mapping
VelocityOfVelocity(d, momentum) ==
  LET velocity == IF momentum = "momentum_x" THEN "velocity_x"
                  ELSE IF momentum = "momentum_y" THEN "velocity_y" ELSE "velocity_z"
  IN  IF velocity \in DOMAIN d THEN ArrDiv(d[velocity], d["density"])
      ELSE ArrDiv(d[momentum], d["density"])

\* a slip: cells of zero density given the velocity 0
VelocityZeroGuard(d, momentum) ==
  MkArray(d[momentum].shape,
          LAMBDA ix : IF d["density"].at[ix] = Zero THEN Zero
                      ELSE FDiv(d[momentum].at[ix], d["density"].at[ix]))

Velocity(d, momentum) == ArrDiv(d[momentum], d["density"])

compute_velocities(d) ==
  LET d1 == Put(d, "velocity_x", Velocity(d, "momentum_x"))
      d2 == Put(d1, "velocity_y", Velocity(d1, "momentum_y"))
  IN  Put(d2, "velocity_z", Velocity(d2, "momentum_z"))

\* 0.5 * (a**2 + b**2 + c**2)
HalfSumSquares(a, b, c) ==
  ScalarMul(Half, ArrAdd(ArrAdd(ArrSquare(a), ArrSquare(b)), ArrSquare(c)))

SpecKinetic(d) == HalfSumSquares(d["velocity_x"], d["velocity_y"], d["velocity_z"])

\* a slip: the sum of the squares, the factor 0.5 forgotten
MagneticEnergyNoHalf(d) ==
  ArrAdd(ArrAdd(ArrSquare(d["magnetic_x_centered"]), ArrSquare(d["magnetic_y_centered"])),
         ArrSquare(d["magnetic_z_centered"]))

MagneticEnergy(d) ==
  HalfSumSquares(d["magnetic_x_centered"], d["magnetic_y_centered"], d["magnetic_z_centered"])

\* a slip: the magnetic energy added instead of subtracted
GasPressurePlusMagnetic(d, gamma) ==
  ScalarMul(FSub(gamma, One),
            ArrAdd(ArrSub(d["energy"], ArrMul(d["density"], d["spec_kinetic"])),
                   d["magnetic_energy"]))

\* (gamma - 1) * (energy - density * spec_kinetic - magnetic_energy)
GasPressure(d, gamma) ==
  ScalarMul(FSub(gamma, One),
            ArrSub(ArrSub(d["energy"], ArrMul(d["density"], d["spec_kinetic"])),
                   d["magnetic_energy"]))

\* a slip: the magnetic energy subtracted
TotalPressureMinus(d) == ArrSub(d["gas_pressure"], d["magnetic_energy"])

TotalPressure(d) == ArrAdd(d["gas_pressure"], d["magnetic_energy"])

VelocityKeys == {"velocity_x", "velocity_y", "velocity_z"}
CenteredKeys == {"magnetic_x_centered", "magnetic_y_centered", "magnetic_z_centered"}
DerivedKeys == {"spec_kinetic", "magnetic_energy", "gas_pressure", "total_pressure"}

\* compute_derived_quantities, statement by statement.  The result is the
\* mapping left behind and the exception raised: a key that is missing makes
\* the statement that reads it raise KeyError, after the statements before it
\* have stored their entries.
\* a variant that looks up every input before it stores anything
derived_all_or_nothing(d, gamma) ==
  IF ~((VelocityKeys \cup CenteredKeys) \subseteq DOMAIN d) THEN [data |-> d, err |-> "KeyError"]
  ELSE LET d1 == Put(d, "spec_kinetic", SpecKinetic(d))
           d2 == Put(d1, "magnetic_energy", MagneticEnergy(d1))
           d3 == Put(d2, "gas_pressure", GasPressure(d2, gamma))
       IN  [data |-> Put(d3, "total_pressure", TotalPressure(d3)), err |-> "none"]

compute_derived_quantities(d, gamma) ==
  IF ~(VelocityKeys \subseteq DOMAIN d) THEN [data |-> d, err |-> "KeyError"]
  ELSE LET d1 == Put(d, "spec_kinetic", SpecKinetic(d))
       IN  IF ~(CenteredKeys \subseteq DOMAIN d1) THEN [data |-> d1, err |-> "KeyError"]
           ELSE LET d2 == Put(d1, "magnetic_energy", MagneticEnergy(d1))
                    d3 == Put(d2, "gas_pressure", GasPressure(d2, gamma))
                IN  [data |-> Put(d3, "total_pressure", TotalPressure(d3)), err |-> "none"]

\* the advecting-field-loop script is not running
AFLIdle ==
  /\ dir = <<>>
  /\ pc = "idle"
  /\ ld_res = 0
  /\ ld_i = 0
  /\ b_squared_avg = <<>>
  /\ divergence = <<>>
  /\ times = <<>>
  /\ sl = 0

\* the linear-wave-convergence script is not running
L2Idle ==
  /\ l2files = <<>>
  /\ l2_pos = 0
  /\ l2norms = <<>>

\* scaling_plots load_data is not called
ScaleIdle ==
  /\ rank_dirs = <<>>
  /\ scaling_data = <<>>
  /\ printed = <<>>
  /\ sc_err = "idle"

\* no runner is executing
RunIdle ==
  /\ rundir = <<>>
  /\ datadir = <<>>
  /\ sweep = <<>>
  /\ rerr = "none"
  /\ launch = <<>>
  /\ lost = {}

\* no script was run
MainIdle ==
  /\ cmd = <<>>
  /\ ran = <<>>
  /\ exit = "none"
  /\ writers = <<>>
  /\ runs = 0

\* no update_plot_entry call is under way
ConcIdle ==
  /\ procs = <<>>
  /\ overlapped = FALSE
  /\ MainIdle

\* no Link Table call is made
LinksIdle ==
  /\ pkl = <<>>
  /\ head = "none"
  /\ stored = <<>>
  /\ got = "none"
  /\ out = <<>>
  /\ lerr = "none"
  /\ ConcIdle

\* the snapshot pipeline is not running
PipeIdle ==
  /\ file = NoFile
  /\ data = EmptyDict
  /\ err = "none"
  /\ gam = Zero
  /\ largs = <<>>
  /\ opens = 0
  /\ cut = <<>>

\* --------------------------------------------------- the pipeline, any order
\* slice_data calls per run
MaxCuts == 2

Init ==
  /\ file \in SnapshotFiles
  /\ data = EmptyDict
  /\ err = "none"
  /\ gam = Zero
  /\ largs = <<>>
  /\ opens = 0
  /\ cut = <<>>
  /\ AFLIdle
  /\ L2Idle
  /\ LinksIdle
  /\ RunIdle
  /\ ScaleIdle

Loaded == DOMAIN data # {}

\* a slip: a file that cannot be opened gives an empty mapping
load_or_empty(f, load_gamma, load_resolution, load_time, load_dx) ==
  IF Exists(f)
    THEN [data |-> load_conserved_data(f, load_gamma, load_resolution, load_time, load_dx),
          err |-> "none", opens |-> 1]
    ELSE [data |-> EmptyDict, err |-> "none", opens |-> 1]

\* the call of load_conserved_data: h5py.File is called once and raises
\* FileNotFoundError when there is no such file, before `output` exists
load_call(f, load_gamma, load_resolution, load_time, load_dx) ==
  IF Exists(f)
    THEN [data |-> load_conserved_data(f, load_gamma, load_resolution, load_time, load_dx),
          err |-> "none", opens |-> 1]
    ELSE [data |-> EmptyDict, err |-> "FileNotFoundError", opens |-> 1]

\* the call with the flags lg, lr, lt, ldx
Load(lg, lr, lt, ldx) ==
  /\ ~Loaded /\ err = "none"
  /\ LET r == load_call(file, lg, lr, lt, ldx)
     IN  /\ data' = r.data
         /\ err' = r.err
         /\ opens' = opens + r.opens
         /\ largs' = [load_gamma |-> lg, load_resolution |-> lr,
                      load_time |-> lt, load_dx |-> ldx]
  /\ UNCHANGED <<file, gam, cut, aflVars, restVars>>

\* load_conserved_data as the scripts call it: time and dx are not asked for
LoadConservedData ==
  \E lg \in BOOLEAN, lr \in BOOLEAN : Load(lg, lr, FALSE, FALSE)

\* load_conserved_data with load_time or load_dx set
LoadTimeOrDx ==
  \E lg \in BOOLEAN, lr \in BOOLEAN, lt \in BOOLEAN, ldx \in BOOLEAN :
    (lt \/ ldx) /\ Load(lg, lr, lt, ldx)

\* number of centred fields center_magnetic_fields stores before a raw
\* magnetic field of fewer than three dimensions raises IndexError
CenterStops(d) ==
  IF Ndim(d["magnetic_x"]) < 3 THEN 0
  ELSE IF Ndim(d["magnetic_y"]) < 3 THEN 1
  ELSE IF Ndim(d["magnetic_z"]) < 3 THEN 2
  ELSE 3

\* center_magnetic_fields as called: the mapping it leaves and how it ends
center_call(d) ==
  LET n == CenterStops(d)
      d1 == IF n >= 1 THEN Put(d, "magnetic_x_centered", Centered(d["magnetic_x"], 1)) ELSE d
      d2 == IF n >= 2 THEN Put(d1, "magnetic_y_centered", Centered(d["magnetic_y"], 2)) ELSE d1
  IN  IF n = 3 THEN [data |-> center_magnetic_fields(d), err |-> "none"]
      ELSE [data |-> d2, err |-> "IndexError"]

CenterMagneticFields ==
  /\ Loaded /\ err = "none"
  /\ LET r == center_call(data)
     IN  data' = r.data /\ err' = r.err
  /\ UNCHANGED <<file, gam, largs, opens, cut, aflVars, restVars>>

ComputeVelocities ==
  /\ Loaded /\ err = "none"
  /\ data' = compute_velocities(data)
  /\ UNCHANGED <<file, err, gam, largs, opens, cut, aflVars, restVars>>

ComputeDerivedQuantities ==
  /\ Loaded /\ err = "none"
  /\ \E g \in {Gammas[i] : i \in 1..Len(Gammas)} :
       LET r == compute_derived_quantities(data, g)
       IN  /\ data' = r.data
           /\ err' = r.err
           /\ gam' = g
  /\ UNCHANGED <<file, largs, opens, cut, aflVars, restVars>>

SliceData ==
  /\ Loaded /\ err = "none"
  /\ Len(cut) < MaxCuts
  /\ \E x \in SliceLocs, y \in SliceLocs, z \in SliceLocs :
       LET r == slice_data(data, x, y, z)
       IN  /\ data' = r.data
           /\ err' = r.err
           /\ cut' = IF r.err = "none" THEN Append(cut, <<x, y, z>>) ELSE cut
  /\ UNCHANGED <<file, gam, largs, opens, aflVars, restVars>>

Next ==
  \/ LoadConservedData
  \/ CenterMagneticFields
  \/ ComputeVelocities
  \/ ComputeDerivedQuantities

Spec == Init /\ [][Next]_vars

\* ------------------------------- the pipeline with every flag and slice_data
\* the files a name may resolve to, one snapshot per resolution, and the
\* name that is no file
CutFiles == {GenFile(res, MaxSeed) : res \in Resolutions} \cup {NoFile}

InitSlice ==
  /\ file \in CutFiles
  /\ data = EmptyDict
  /\ err = "none"
  /\ gam = Zero
  /\ largs = <<>>
  /\ opens = 0
  /\ cut = <<>>
  /\ AFLIdle
  /\ L2Idle
  /\ LinksIdle
  /\ RunIdle
  /\ ScaleIdle

NextSlice ==
  \/ LoadConservedData
  \/ LoadTimeOrDx
  \/ CenterMagneticFields
  \/ ComputeVelocities
  \/ ComputeDerivedQuantities
  \/ SliceData

SpecSlice == InitSlice /\ [][NextSlice]_vars

\* ------------------------------------------------- advecting-field-loop.py
\* number of snapshots per run (num_outputs; 21 in the script)
NumOutputs == 2

\* positions in the resolutions list (the script has [32, 64, 128, 256])
AFLResolutions == <<1, 2>>

AFLKeys == {AFLResolutions[r] : r \in 1..Len(AFLResolutions)}

\* np.zeros(num_outputs)
Zeros(n) == [i \in 1..n |-> Zero]

\* a slip: the two faces added, as the centring does, instead of subtracted
DivTermSum(td, axis) ==
  ScalarDiv(ArrAdd(SliceFromOne(td[RawKey(axis)], axis), SliceToLast(td[RawKey(axis)], axis)),
            td["dx"][axis])

\* (a[1:] - a[:-1]) / dx along the component's own axis
DivTerm(td, axis) ==
  ScalarDiv(ArrSub(SliceFromOne(td[RawKey(axis)], axis), SliceToLast(td[RawKey(axis)], axis)),
            td["dx"][axis])

DivergenceSum(td) == ArrAdd(ArrAdd(DivTerm(td, 1), DivTerm(td, 2)), DivTerm(td, 3))

\* np.max(div_x + div_y + div_z)
DivergenceMax(td) == ArrMax(DivergenceSum(td))

\* np.mean(Bx_c**2 + By_c**2 + Bz_c**2)
BSquaredMean(td) ==
  ArrMean(ArrAdd(ArrAdd(ArrSquare(td["magnetic_x_centered"]),
                        ArrSquare(td["magnetic_y_centered"])),
                 ArrSquare(td["magnetic_z_centered"])))

\* temp_data of one iteration of load_data
TempData(f) == center_magnetic_fields(load_conserved_data(f, FALSE, FALSE, TRUE, TRUE))

\* series[i] = v, for the 0-based index i
SetAt(series, i, v) == [series EXCEPT ![i + 1] = v]

\* a slip: the series divided by its last element
NormalisedByLast(series) == [i \in 1..Len(series) |-> FDiv(series[i], series[Len(series)])]

\* series /= series[0]
Normalised(series) == [i \in 1..Len(series) |-> FDiv(series[i], series[1])]

\* the snapshots of a generated run: file i of resolution r
GenDir(res, seed) ==
  [n \in AFLKeys \X (0..(NumOutputs - 1)) |->
     GenFile(IF n[1] = 1 THEN res ELSE <<res[3], res[1], res[2]>>,
             (seed + 5 * (n[1] - 1) + n[2]) % (MaxSeed + 1))]

\* a run whose every snapshot is the same uniform file
UniformDir(f) == [n \in AFLKeys \X (0..(NumOutputs - 1)) |-> f]

\* a snapshot without magnetic field
FieldFree(res) ==
  UniformFile(res, Pick(Gammas, 0), Spacings[1], One, Zero, Three, <<Zero, Zero, Zero>>)

\* a run that starts without magnetic field: snapshot 0 is field free, the
\* later snapshots are f
FieldFreeStart(f) ==
  [n \in AFLKeys \X (0..(NumOutputs - 1)) |->
     IF n[2] = 0 THEN FieldFree(f.datasets["density"].shape) ELSE f]

AFLDirs ==
  {GenDir(res, seed) : res \in Resolutions, seed \in Seeds}
    \cup {UniformDir(f) : f \in UniformFiles}
    \cup {FieldFreeStart(GenFile(<<1, 1, MaxN>>, seed)) : seed \in Seeds}
    \cup {UniformDir(FieldFree(<<1, 1, 1>>))}

InitAFL ==
  /\ dir \in AFLDirs
  /\ pc = "load_data"
  /\ ld_res = 1
  /\ ld_i = 0
  /\ b_squared_avg = <<>>
  /\ divergence = <<>>
  /\ times = <<>>
  /\ sl = 0
  /\ PipeIdle
  /\ L2Idle
  /\ LinksIdle
  /\ RunIdle
  /\ ScaleIdle

\* load_data, one iteration of the inner loop: snapshot i of resolution res
LoadDataSnapshot ==
  /\ pc = "load_data" /\ ld_res <= Len(AFLResolutions) /\ ld_i < NumOutputs
  /\ LET key == AFLResolutions[ld_res]
         temp_data == TempData(dir[<<key, ld_i>>])
         b0 == IF ld_i = 0 THEN Put(b_squared_avg, key, Zeros(NumOutputs)) ELSE b_squared_avg
         d0 == IF ld_i = 0 THEN Put(divergence, key, Zeros(NumOutputs)) ELSE divergence
         t0 == IF ld_i = 0 THEN Put(times, key, Zeros(NumOutputs)) ELSE times
     IN  /\ b_squared_avg' = [b0 EXCEPT ![key] = SetAt(@, ld_i, BSquaredMean(temp_data))]
         /\ divergence' = [d0 EXCEPT ![key] = SetAt(@, ld_i, DivergenceMax(temp_data))]
         /\ times' = [t0 EXCEPT ![key] = SetAt(@, ld_i, temp_data["time"])]
  /\ ld_i' = ld_i + 1
  /\ UNCHANGED <<dir, pc, ld_res, sl, pipeVars, restVars>>

\* load_data, the end of an outer iteration: b_squared_avg[key] /= ...[0]
LoadDataNormalise ==
  /\ pc = "load_data" /\ ld_res <= Len(AFLResolutions) /\ ld_i = NumOutputs
  /\ b_squared_avg' = [b_squared_avg EXCEPT ![AFLResolutions[ld_res]] = Normalised(@)]
  /\ ld_res' = ld_res + 1
  /\ ld_i' = 0
  /\ pc' = IF ld_res = Len(AFLResolutions) THEN "load_slices" ELSE pc
  /\ UNCHANGED <<dir, divergence, times, sl, pipeVars, restVars>>

\* the snapshots load_slices reads: the first and a later one of the last
\* resolution ('afl_n256_0' and 'afl_n256_10' in the script)
SliceFiles == <<<<AFLResolutions[Len(AFLResolutions)], 0>>,
                <<AFLResolutions[Len(AFLResolutions)], NumOutputs - 1>>>>

\* load_slice: load_conserved_data(filename, load_gamma, load_resolution)
SliceLoad ==
  /\ pc = "load_slices" /\ sl < Len(SliceFiles)
  /\ sl' = sl + 1
  /\ data' = load_conserved_data(dir[SliceFiles[sl + 1]], TRUE, TRUE, FALSE, FALSE)
  /\ pc' = "slice_center"
  /\ UNCHANGED <<dir, ld_res, ld_i, b_squared_avg, divergence, times, file, err, gam, largs, opens, cut, restVars>>

SliceCenter ==
  /\ pc = "slice_center"
  /\ data' = center_magnetic_fields(data)
  /\ pc' = "slice_velocities"
  /\ UNCHANGED <<dir, ld_res, ld_i, b_squared_avg, divergence, times, sl, file, err, gam, largs, opens, cut, restVars>>

SliceVelocities ==
  /\ pc = "slice_velocities"
  /\ data' = compute_velocities(data)
  /\ pc' = "slice_derived"
  /\ UNCHANGED <<dir, ld_res, ld_i, b_squared_avg, divergence, times, sl, file, err, gam, largs, opens, cut, restVars>>

\* compute_derived_quantities(data, data['gamma'])
SliceDerived ==
  /\ pc = "slice_derived"
  /\ LET r == compute_derived_quantities(data, data["gamma"])
     IN  /\ data' = r.data
         /\ err' = r.err
  /\ gam' = data["gamma"]
  /\ pc' = IF sl = Len(SliceFiles) THEN "done" ELSE "load_slices"
  /\ UNCHANGED <<dir, ld_res, ld_i, b_squared_avg, divergence, times, sl, file, largs, opens, cut, restVars>>

NextAFL ==
  \/ LoadDataSnapshot
  \/ LoadDataNormalise
  \/ SliceLoad
  \/ SliceCenter
  \/ SliceVelocities
  \/ SliceDerived

SpecAFL == InitAFL /\ [][NextAFL]_vars

\* ---------------------------------------------- linear-wave-convergence.py
\* the lists the script loops over (it has four waves and six resolutions)
reconstructors == <<"plmc", "ppmc">>
waves == <<"alfven_wave", "fast_magnetosonic">>
resolutions == <<16, 32>>

\* a slip: the innermost loop walking the resolutions backwards
ComboBackwards(p) ==
  LET q == p - 1
      nr == Len(resolutions)
      nw == Len(waves)
  IN  <<reconstructors[(q \div (nr * nw)) + 1], waves[((q \div nr) % nw) + 1],
        resolutions[nr - (q % nr)]>>

\* the (reconstructor, wave, resolution) of iteration number p of the loops,
\* the resolution varying fastest
Combo(p) ==
  LET q == p - 1
      nr == Len(resolutions)
      nw == Len(waves)
  IN  <<reconstructors[(q \div (nr * nw)) + 1], waves[((q \div nr) % nw) + 1],
        resolutions[(q % nr) + 1]>>

NumCombos == Len(reconstructors) * Len(waves) * Len(resolutions)

\* f'{reconstructor}_{wave}'
SeriesKey(c) == <<c[1], c[2]>>

SeriesKeys == {SeriesKey(Combo(p)) : p \in 1..NumCombos}

\* initialFile.keys(): the dataset names, in alphabetical order as h5py
\* lists them
FieldOrder == <<"Energy", "density", "magnetic_x", "magnetic_y", "magnetic_z",
                "momentum_x", "momentum_y", "momentum_z">>

\* a slip: the two snapshots added instead of subtracted
L1ErrorOfSum(initialData, finalData) ==
  FDiv(ArrSum(ArrAbs(ArrAdd(initialData, finalData))), <<Size(initialData), 1>>)

\* diff = np.abs(initialData - finalData); np.sum(diff) / initialData.size
L1Error(initialData, finalData) ==
  FDiv(ArrSum(ArrAbs(ArrSub(initialData, finalData))), <<Size(initialData), 1>>)

\* a slip: the L1 error added without being squared
AddFieldNoSquare(L2Norm, initialData, finalData) ==
  FAdd(L2Norm, L1Error(initialData, finalData))

\* L2Norm += np.power(L1Error, 2)
AddField(L2Norm, initialData, finalData) ==
  FAdd(L2Norm, FSquare(L1Error(initialData, finalData)))

\* the value of L2Norm after the first n fields
RECURSIVE L2Accumulate(_, _, _)
L2Accumulate(initialFile, finalFile, n) ==
  IF n = 0 THEN Zero
  ELSE AddField(L2Accumulate(initialFile, finalFile, n - 1),
                initialFile[FieldOrder[n]], finalFile[FieldOrder[n]])

\* np.sqrt(L2Norm) once every field is added
L2NormOf(initialFile, finalFile) ==
  FSqrt(L2Accumulate(initialFile, finalFile, Len(FieldOrder)))

\* the snapshot pairs of a generated sweep: the final snapshot of iteration p
\* is the initial one when delta * (p % 2) = 0
L2Files(res, seed, delta) ==
  [c \in {Combo(p) : p \in 1..NumCombos} |->
     LET p == CHOOSE q \in 1..NumCombos : Combo(q) = c
         s0 == (seed + p) % (MaxSeed + 1)
         s1 == (s0 + delta * (p % 2)) % (MaxSeed + 1)
     IN  [initial |-> GenFile(res, s0).datasets, final |-> GenFile(res, s1).datasets]]

\* the grids of the sweeps checked: nx by ny cells, one cell deep
L2Grids == {<<nx, ny, 1>> : nx \in 1..MaxN, ny \in 1..MaxN}

InitL2 ==
  /\ l2files \in {L2Files(res, seed, delta) : res \in L2Grids, seed \in Seeds, delta \in 0..2}
  /\ l2_pos = 0
  /\ l2norms = <<>>
  /\ PipeIdle
  /\ AFLIdle
  /\ LinksIdle
  /\ RunIdle
  /\ ScaleIdle

\* computeL2Norm, the first loops: an empty series for every key
ComputeL2Setup ==
  /\ l2_pos = 0 /\ l2norms = <<>>
  /\ l2norms' = [k \in SeriesKeys |-> <<>>]
  /\ l2_pos' = 1
  /\ UNCHANGED <<l2files, pipeVars, aflVars, linkVars, concVars, mainVars, runVars, scaleVars>>

\* computeL2Norm, one iteration of the main loops
ComputeL2Iteration ==
  /\ l2_pos >= 1 /\ l2_pos <= NumCombos
  /\ LET c == Combo(l2_pos)
     IN  l2norms' = [l2norms EXCEPT ![SeriesKey(c)] =
                       Append(@, L2NormOf(l2files[c].initial, l2files[c].final))]
  /\ l2_pos' = l2_pos + 1
  /\ UNCHANGED <<l2files, pipeVars, aflVars, linkVars, concVars, mainVars, runVars, scaleVars>>

NextL2 ==
  \/ ComputeL2Setup
  \/ ComputeL2Iteration

SpecL2 == InitL2 /\ [][NextL2]_vars

\* ------------------------------------------------------------ Link Table
\* A link is github_url_root/commit_hash/script_name; the table is a dict
\* from key to link.  links.pkl is <<>> while the file does not exist and
\* <<bytes>> once written, bytes being the pickled dict: its items in order.
LinkKeys == {"afl", "afl_slice"}
ScriptNames == {"python/advecting-field-loop.py", "python/shock-tubes.py"}
Commits == {"c1", "c2"}
github_url_root == "https://github.com/bcaddy/caddy-et-al-2023/blob"

Link(commit_hash, script_name) == <<github_url_root, commit_hash, script_name>>

Links == {Link(c, n) : c \in Commits, n \in ScriptNames}

Tables == UNION {[ks -> Links] : ks \in SUBSET LinkKeys}

\* pickle.dump: the items of the dict, one after the other
RECURSIVE Pickle(_)
Pickle(d) ==
  IF DOMAIN d = {} THEN <<>>
  ELSE LET k == CHOOSE x \in DOMAIN d : TRUE
       IN  <<<<k, d[k]>>>> \o Pickle([x \in DOMAIN d \ {k} |-> d[x]])

\* pickle.load: the dict rebuilt by setting the items in order
RECURSIVE Unpickle(_)
Unpickle(bytes) ==
  IF bytes = <<>> THEN EmptyDict
  ELSE Put(Unpickle(SubSeq(bytes, 1, Len(bytes) - 1)),
           bytes[Len(bytes)][1], bytes[Len(bytes)][2])

\* pickle_dictionary: the file created or truncated, then written
pickle_dictionary(dictionary) == <<Pickle(dictionary)>>

\* unpickle_dictionary: the dict in the file, {} when there is no file
unpickle_dictionary(path) == IF path # <<>> THEN Unpickle(path[1]) ELSE EmptyDict

\* a slip: the entry stored under the script name instead of the key
update_under_script_name(path, key, script_name, commit_hash) ==
  pickle_dictionary(Put(unpickle_dictionary(path), script_name,
                        Link(commit_hash, script_name)))

\* a slip: the table started afresh instead of read from links.pkl
update_fresh_table(path, key, script_name, commit_hash) ==
  pickle_dictionary(Put(EmptyDict, key, Link(commit_hash, script_name)))

\* update_plot_entry once git has answered: the new content of links.pkl
update_plot_entry(path, key, script_name, commit_hash) ==
  pickle_dictionary(Put(unpickle_dictionary(path), key, Link(commit_hash, script_name)))

\* get_links: the line printed for a link
Href(link) == <<"\\href{", link, "}{\\img{../latex-src/github.png}}">>

InitLinks ==
  /\ pkl \in {<<>>} \cup {pickle_dictionary(t) : t \in Tables}
  /\ head \in Commits \cup {"none"}
  /\ stored = <<>>
  /\ got = "none"
  /\ out = <<>>
  /\ lerr = "none"
  /\ ConcIdle
  /\ PipeIdle
  /\ AFLIdle
  /\ L2Idle
  /\ RunIdle
  /\ ScaleIdle

\* a script calls update_plot_entry(key, script_name); check_output raises
\* CalledProcessError when git fails, before anything is written
UpdatePlotEntry ==
  \E key \in LinkKeys, script_name \in ScriptNames :
    /\ got' = "none"
    /\ out' = <<>>
    /\ IF head = "none"
         THEN /\ lerr' = "CalledProcessError"
              /\ UNCHANGED <<pkl, stored>>
         ELSE /\ pkl' = update_plot_entry(pkl, key, script_name, head)
              /\ stored' = Put(stored, key, Link(head, script_name))
              /\ lerr' = "none"
    /\ UNCHANGED <<head, concVars, pipeVars, aflVars, l2Vars, mainVars, runVars, scaleVars>>

\* get_links.py main: open raises FileNotFoundError without the file,
\* links[key] raises KeyError without the key
GetLinks ==
  \E key \in LinkKeys :
    /\ got' = key
    /\ IF pkl = <<>>
         THEN lerr' = "FileNotFoundError" /\ out' = <<>>
         ELSE LET links == Unpickle(pkl[1])
              IN  IF key \in DOMAIN links
                    THEN lerr' = "none" /\ out' = Href(links[key])
                    ELSE lerr' = "KeyError" /\ out' = <<>>
    /\ UNCHANGED <<pkl, head, stored, concVars, pipeVars, aflVars, l2Vars, mainVars, runVars, scaleVars>>

\* the repository moves to another commit, or git stops answering
GitHeadMoves ==
  /\ \E h \in (Commits \cup {"none"}) \ {head} : head' = h
  /\ UNCHANGED <<pkl, stored, got, out, lerr, concVars, pipeVars, aflVars, l2Vars, mainVars, runVars, scaleVars>>

NextLinks ==
  \/ UpdatePlotEntry
  \/ GetLinks
  \/ GitHeadMoves

SpecLinks == InitLinks /\ [][NextLinks]_vars

\* --------------------------------------- update_plot_entry calls overlapping
\* Two scripts run at once.  A call is two steps: it reads links.pkl
\* (unpickle_dictionary), then asks git for the commit, sets its key in the
\* dict it read and writes the dict back (pickle_dictionary); nothing locks
\* the file in between.
Procs == {1, 2}
ScriptOf(p) == IF p = 1 THEN "python/advecting-field-loop.py" ELSE "python/shock-tubes.py"

IdleCall == [pc |-> "idle"]

\* a slip: only the new entry written back
write_only_entry(table, key, script_name, commit_hash) ==
  pickle_dictionary(Put(EmptyDict, key, Link(commit_hash, script_name)))

\* data[key] = link; pickle_dictionary(data, pickle_filepath)
write_entry(table, key, script_name, commit_hash) ==
  pickle_dictionary(Put(table, key, Link(commit_hash, script_name)))

InitConc ==
  /\ pkl \in {<<>>} \cup {pickle_dictionary(t) : t \in Tables}
  /\ head \in Commits \cup {"none"}
  /\ stored = <<>>
  /\ got = "none"
  /\ out = <<>>
  /\ lerr = "none"
  /\ procs = [p \in Procs |-> IdleCall]
  /\ overlapped = FALSE
  /\ MainIdle
  /\ PipeIdle
  /\ AFLIdle
  /\ L2Idle
  /\ RunIdle
  /\ ScaleIdle

\* data = unpickle_dictionary(pickle_filepath)
UpdateReads(p) ==
  /\ procs[p].pc = "idle"
  /\ \E key \in LinkKeys :
       procs' = [procs EXCEPT ![p] = [pc |-> "read", key |-> key,
                                      data |-> unpickle_dictionary(pkl)]]
  /\ overlapped' = (overlapped \/ \E q \in Procs \ {p} : procs[q].pc = "read")
  /\ UNCHANGED <<pkl, head, stored, got, out, lerr, pipeVars, aflVars, l2Vars, mainVars, runVars, scaleVars>>

\* the rest of the call: check_output raises when git fails and nothing is
\* written, else the dict read earlier is written back with the key set
UpdateWrites(p) ==
  /\ procs[p].pc = "read"
  /\ procs' = [procs EXCEPT ![p] = IdleCall]
  /\ IF head = "none"
       THEN /\ lerr' = "CalledProcessError"
            /\ UNCHANGED <<pkl, stored>>
       ELSE /\ pkl' = write_entry(procs[p].data, procs[p].key, ScriptOf(p), head)
            /\ stored' = Put(stored, procs[p].key, Link(head, ScriptOf(p)))
            /\ lerr' = "none"
  /\ UNCHANGED <<head, overlapped, got, out, pipeVars, aflVars, l2Vars, mainVars, runVars, scaleVars>>

NextConc ==
  \/ \E p \in Procs : UpdateReads(p)
  \/ \E p \in Procs : UpdateWrites(p)
  \/ GitHeadMoves

SpecConc == InitConc /\ [][NextConc]_vars

\* ------------------------------------------------------ the scripts' main
\* A run of a script: argparse reads the command line, then main makes its
\* calls in order.  `ran` lists them; a call of update_plot_entry is listed
\* with its key and script name and changes links.pkl.
Scripts ==
  {"advecting-field-loop", "blast-wave", "linear-wave-convergence",
   "orszag-tang-vortex", "scaling_plots", "shock-tubes"}

\* script runs per behaviour
MaxRuns == 2

\* the global list of shock-tubes.py
shock_tubes == <<"b&w", "d&w", "rj1a", "rj4d", "einfeldt">>


\* Python values of an option: a bool or a str
PyBool(b) == <<"bool", b>>
PyStr(str) == <<"str", str>>
PyEq(v, w) == v[1] = w[1] /\ v[2] = w[2]
Truthy(v) == IF v[1] = "bool" THEN v[2] ELSE v[2] # ""

\* how an option stands on the command line: not there, alone, or followed
\* by the word True
OptForms == {"absent", "bare", "True"}

\* the forms a store_true option is given in
FlagForms == {"absent", "bare"}

\* add_argument(..., action="store_true"): a word after it is not recognised
store_true(form) ==
  IF form = "absent" THEN [ok |-> TRUE, value |-> PyBool(FALSE)]
  ELSE IF form = "bare" THEN [ok |-> TRUE, value |-> PyBool(TRUE)]
  ELSE [ok |-> FALSE, value |-> PyBool(FALSE)]

\* add_argument(..., default=False): the option takes one word, kept as a str
store_default_false(form) ==
  IF form = "absent" THEN [ok |-> TRUE, value |-> PyBool(FALSE)]
  ELSE IF form = "bare" THEN [ok |-> FALSE, value |-> PyBool(FALSE)]
  ELSE [ok |-> TRUE, value |-> PyStr(form)]

\* the names given after -t: nothing, 'all', tubes of the list (one, two,
\* one twice), a name that is no tube, 'all' beside a tube
TubeLists ==
  {<<>>, <<"all">>, <<"b&w">>, <<"rj1a", "einfeldt">>, <<"d&w", "d&w">>,
   <<"sod">>, <<"all", "rj4d">>}

NoOptions ==
  [r |-> "absent", f |-> "absent", d |-> "absent", slicedata |-> "absent",
   slicefigure |-> "absent", w |-> "absent", s |-> "absent", tube |-> <<>>]

\* the command lines a script is run with: its own options only
CmdLines(script) ==
  IF script = "advecting-field-loop"
    THEN {[NoOptions EXCEPT !.r = r, !.f = f, !.d = d, !.slicedata = sd, !.slicefigure = sf] :
            r \in OptForms, f \in FlagForms, d \in FlagForms,
            sd \in FlagForms, sf \in FlagForms}
  ELSE IF script = "scaling_plots"
    THEN {[NoOptions EXCEPT !.w = w, !.s = st] : w \in FlagForms, st \in FlagForms}
  ELSE IF script = "shock-tubes"
    THEN {[NoOptions EXCEPT !.r = r, !.f = f, !.tube = t] :
            r \in OptForms, f \in OptForms, t \in TubeLists}
  ELSE {[NoOptions EXCEPT !.r = r, !.f = f] : r \in OptForms, f \in FlagForms}

\* parser.parse_args(): shock-tubes.py declares -r and -f with default=False,
\* the other scripts declare their options with action="store_true"
parse_args(script, c) ==
  LET r == IF script = "shock-tubes" THEN store_default_false(c.r) ELSE store_true(c.r)
      f == IF script = "shock-tubes" THEN store_default_false(c.f) ELSE store_true(c.f)
      d == store_true(c.d)
      sd == store_true(c.slicedata)
      sf == store_true(c.slicefigure)
      w == store_true(c.w)
      st == store_true(c.s)
  IN  [ok |-> r.ok /\ f.ok /\ d.ok /\ sd.ok /\ sf.ok /\ w.ok /\ st.ok,
       args |-> [run_cholla |-> r.value, figure |-> f.value, data |-> d.value,
                 slicedata |-> sd.value, slicefigure |-> sf.value,
                 weak |-> w.value, strong |-> st.value,
                 tube |-> IF c.tube = <<>> THEN <<"all">> ELSE c.tube]]

Call(name) == <<name>>
Update(key, script_name) == <<"update_plot_entry", key, script_name>>
When(cond, calls) == IF cond THEN calls ELSE <<>>

advecting_field_loop_main(args) ==
  [err |-> "none",
   calls |->
     When(Truthy(args.run_cholla), <<Call("runCholla")>>)
     \o When(Truthy(args.data), <<Call("load_data"), Call("pickle_dictionary")>>)
     \o When(Truthy(args.figure),
             <<Call("plotAFL"), Update("afl", "python/advecting-field-loop.py")>>)
     \o When(Truthy(args.slicedata), <<Call("load_slices"), Call("pickle_dictionary")>>)
     \o When(Truthy(args.slicefigure),
             <<Call("plotAFL_slice"), Update("afl_slice", "python/advecting-field-loop.py")>>)]

\* a slip: the key of another script's figure passed
blast_wave_borrowed_key(args) ==
  [err |-> "none",
   calls |->
     When(Truthy(args.run_cholla), <<Call("runCholla")>>)
     \o When(Truthy(args.figure),
             <<Call("plotBlastWave"), Update("afl", "python/blast-wave.py")>>)]

blast_wave_main(args) ==
  [err |-> "none",
   calls |->
     When(Truthy(args.run_cholla), <<Call("runCholla")>>)
     \o When(Truthy(args.figure),
             <<Call("plotBlastWave"), Update("mhd-blast", "python/blast-wave.py")>>)]

\* the flags are compared with the str 'True'
linear_wave_convergence_main(args) ==
  [err |-> "none",
   calls |->
     When(PyEq(args.run_cholla, PyStr("True")), <<Call("runCholla")>>)
     \o When(PyEq(args.figure, PyStr("True")),
             <<Call("computeL2Norm"), Call("plotL2Norm"),
               Update("linear_wave_convergence", "python/linear-wave-convergence.py")>>)]

\* the update_plot_entry call of this script is commented out
orszag_tang_vortex_main(args) ==
  [err |-> "none",
   calls |->
     When(Truthy(args.run_cholla), <<Call("runCholla")>>)
     \o When(Truthy(args.figure), <<Call("plotOTV")>>)]

scaling_plots_main(args) ==
  [err |-> "none",
   calls |->
     When(Truthy(args.weak),
          <<Call("load_data"), Call("cells_per_second_plot"),
            Call("weak_scaling_efficiency"), Call("ms_per_timestep"),
            Update("scaling", "python/scaling_plots.py")>>)
     \o When(Truthy(args.strong),
             <<Call("strong_scaling"), Update("strong-scaling", "python/scaling_plots.py")>>)]

InList(x, list) == \E i \in 1..Len(list) : list[i] = x

\* a tube list other than ['all'] is checked name by name against
\* shock_tubes and then replaces it
shock_tubes_main(args) ==
  LET tubes == IF args.tube # <<"all">> THEN args.tube ELSE shock_tubes
  IN  IF args.tube # <<"all">> /\ \E i \in 1..Len(args.tube) : ~InList(args.tube[i], shock_tubes)
        THEN [err |-> "ValueError", calls |-> <<>>]
        ELSE [err |-> "none",
              calls |->
                When(PyEq(args.run_cholla, PyStr("True")), <<Call("runCholla")>>)
                \o When(PyEq(args.figure, PyStr("True")),
                        <<Call("plotShockTubes")>>
                        \o [i \in 1..Len(tubes) |-> Update(tubes[i], "python/shock-tubes.py")])]

main(script, args) ==
  CASE script = "advecting-field-loop" -> advecting_field_loop_main(args)
    [] script = "blast-wave" -> blast_wave_main(args)
    [] script = "linear-wave-convergence" -> linear_wave_convergence_main(args)
    [] script = "orszag-tang-vortex" -> orszag_tang_vortex_main(args)
    [] script = "scaling_plots" -> scaling_plots_main(args)
    [] OTHER -> shock_tubes_main(args)

\* the scripts that have passed a key so far
WritersOf(w, key) == IF key \in DOMAIN w THEN w[key] ELSE {}

\* main's calls made one after the other from call i on; a call of
\* update_plot_entry ends the run when git fails
RECURSIVE RunCalls(_, _, _, _, _)
RunCalls(calls, i, st, script, commit_hash) ==
  IF i > Len(calls) THEN [st EXCEPT !.exit = "ok"]
  ELSE LET c == calls[i]
       IN  IF c[1] # "update_plot_entry"
             THEN RunCalls(calls, i + 1, [st EXCEPT !.ran = Append(@, c)], script, commit_hash)
           ELSE LET passed == [st EXCEPT !.ran = Append(@, c),
                                         !.writers = Put(@, c[2], WritersOf(@, c[2]) \cup {script})]
                IN  IF commit_hash = "none"
                      THEN [passed EXCEPT !.exit = "CalledProcessError"]
                    ELSE RunCalls(calls, i + 1,
                                  [passed EXCEPT !.pkl = update_plot_entry(@, c[2], c[3], commit_hash),
                                                 !.stored = Put(@, c[2], Link(commit_hash, c[3]))],
                                  script, commit_hash)

InitMain ==
  /\ pkl = <<>>
  /\ head \in Commits \cup {"none"}
  /\ stored = <<>>
  /\ got = "none"
  /\ out = <<>>
  /\ lerr = "none"
  /\ ConcIdle
  /\ PipeIdle
  /\ AFLIdle
  /\ L2Idle
  /\ RunIdle
  /\ ScaleIdle

\* one run of a script from the command line c
RunScript(script, c) ==
  /\ runs < MaxRuns
  /\ runs' = runs + 1
  /\ cmd' = [script |-> script, opts |-> c]
  /\ LET p == parse_args(script, c)
         m == main(script, p.args)
         st == RunCalls(m.calls, 1,
                        [pkl |-> pkl, stored |-> stored, writers |-> writers,
                         ran |-> <<>>, exit |-> "none"],
                        script, head)
     IN  IF ~p.ok
           THEN exit' = "SystemExit" /\ ran' = <<>> /\ UNCHANGED <<pkl, stored, writers>>
         ELSE IF m.err # "none"
           THEN exit' = m.err /\ ran' = <<>> /\ UNCHANGED <<pkl, stored, writers>>
         ELSE /\ exit' = st.exit
              /\ ran' = st.ran
              /\ pkl' = st.pkl
              /\ stored' = st.stored
              /\ writers' = st.writers
  /\ UNCHANGED <<head, got, out, lerr, concVars, pipeVars, aflVars, l2Vars, runVars, scaleVars>>

AdvectingFieldLoop ==
  \E c \in CmdLines("advecting-field-loop") : RunScript("advecting-field-loop", c)
BlastWave ==
  \E c \in CmdLines("blast-wave") : RunScript("blast-wave", c)
LinearWaveConvergence ==
  \E c \in CmdLines("linear-wave-convergence") : RunScript("linear-wave-convergence", c)
OrszagTangVortex ==
  \E c \in CmdLines("orszag-tang-vortex") : RunScript("orszag-tang-vortex", c)
ScalingPlots ==
  \E c \in CmdLines("scaling_plots") : RunScript("scaling_plots", c)
ShockTubes ==
  \E c \in CmdLines("shock-tubes") : RunScript("shock-tubes", c)

NextMain ==
  \/ AdvectingFieldLoop
  \/ BlastWave
  \/ LinearWaveConvergence
  \/ OrszagTangVortex
  \/ ScalingPlots
  \/ ShockTubes

SpecMain == InitMain /\ [][NextMain]_vars

\* the figure files a plotting function writes with savefig: plotBlastWave is
\* a bare `pass` and plotShockTubes never reaches a savefig
SavedFigures(name) ==
  IF name \in {"plotAFL", "plotAFL_slice", "plotL2Norm", "plotOTV", "cells_per_second_plot",
               "weak_scaling_efficiency", "ms_per_timestep", "strong_scaling"}
    THEN 1
  ELSE 0

\* ------------------------------------------------ the script-local loaders
\* resolution[2]//2 and resolution['ny']//2: the cell the loaders slice at
SliceIndex(n) == n \div 2

\* a[i] for an index that may be -1: numpy counts a negative index from the end
WrapIndex(i, n) == IF i < 0 THEN i + n ELSE i

\* orszag-tang-vortex loadData: the three magnetic entries it returns
loadData(f) ==
  LET nx == f.attrs.dims[1]
      ny == f.attrs.dims[2]
      nz == f.attrs.dims[3]
      z_slice_loc == SliceIndex(nz)
      bx == f.datasets.magnetic_x
      by == f.datasets.magnetic_y
      bz == f.datasets.magnetic_z
  IN  [magnetic_x |->
         MkArray(<<nx, ny>>, LAMBDA ix :
           FMul(Half, FAdd(bx.at[<<ix[1] + 1, ix[2], z_slice_loc>>],
                           bx.at[<<ix[1], ix[2], z_slice_loc>>]))),
       magnetic_y |->
         MkArray(<<nx, ny>>, LAMBDA ix :
           FMul(Half, FAdd(by.at[<<ix[1], ix[2] + 1, z_slice_loc>>],
                           by.at[<<ix[1], ix[2], z_slice_loc>>]))),
       magnetic_z |->
         MkArray(<<nx, ny>>, LAMBDA ix :
           FMul(Half, FAdd(bz.at[<<ix[1], ix[2], z_slice_loc>>],
                           bz.at[<<ix[1], ix[2], WrapIndex(z_slice_loc - 1, nz + 1)>>])))]

\* shock-tubes loadDataField: the three magnetic entries it returns, for a
\* snapshot whose grid is the one named by the script's resolution
loadDataField(f) ==
  LET nx == f.attrs.dims[1]
      ny == f.attrs.dims[2]
      nz == f.attrs.dims[3]
      y_slice_loc == SliceIndex(ny)
      z_slice_loc == SliceIndex(nz)
      bx == f.datasets.magnetic_x
      by == f.datasets.magnetic_y
      bz == f.datasets.magnetic_z
  IN  [magnetic_x |->
         MkArray(<<nx + 1>>, LAMBDA ix : bx.at[<<ix[1], y_slice_loc, z_slice_loc>>]),
       magnetic_y |->
         MkArray(<<nx>>, LAMBDA ix :
           FMul(Half, FAdd(by.at[<<ix[1], y_slice_loc, z_slice_loc>>],
                           by.at[<<ix[1], WrapIndex(y_slice_loc - 1, ny + 1), z_slice_loc>>]))),
       magnetic_z |->
         MkArray(<<nx>>, LAMBDA ix :
           FMul(Half, FAdd(bz.at[<<ix[1], y_slice_loc, z_slice_loc>>],
                           bz.at[<<ix[1], y_slice_loc, WrapIndex(z_slice_loc - 1, nz + 1)>>])))]

\* ------------------------------------------------- scaling_plots load_data
\* the rank directories of a data set in the order sorted() gives their
\* names: ranks1, ranks16, ranks2, ranks4
DirRanks == <<1, 16, 2, 4>>

\* a directory is not there, is there without run_timing.log, or holds the log
DirStates == {"absent", "no log", "log"}

\* sorted(pathlib.Path(data_path).glob('ranks*'))
RECURSIVE DataDirs(_, _)
DataDirs(dirs, i) ==
  IF i > Len(DirRanks) THEN <<>>
  ELSE (IF dirs[DirRanks[i]] = "absent" THEN <<>> ELSE <<DirRanks[i]>>) \o DataDirs(dirs, i + 1)

\* the column under int(data[0]) is put last, or replaced where it stands
SetColumn(columns, rank) ==
  IF \E i \in 1..Len(columns) : columns[i] = rank THEN columns ELSE Append(columns, rank)

\* the loop over the directories: a column per log, a line printed per missing log
RECURSIVE LoadColumns(_, _, _, _)
LoadColumns(dirs, data_dirs, i, st) ==
  IF i > Len(data_dirs) THEN st
  ELSE LoadColumns(dirs, data_dirs, i + 1,
         IF dirs[data_dirs[i]] = "log"
           THEN [st EXCEPT !.data = SetColumn(st.data, data_dirs[i])]
         ELSE [st EXCEPT !.printed = Append(st.printed, <<"not found", data_dirs[i]>>)])

\* scaling_data.reindex(sorted(scaling_data.columns), axis=1)
RECURSIVE Reindex(_)
Reindex(columns) ==
  IF columns = <<>> THEN <<>>
  ELSE LET least == CHOOSE i \in 1..Len(columns) : \A j \in 1..Len(columns) : columns[i] <= columns[j]
       IN  <<columns[least]>> \o
           Reindex([k \in 1..(Len(columns) - 1) |-> IF k < least THEN columns[k] ELSE columns[k + 1]])

NoFrame == [data |-> <<>>, printed |-> <<>>, err |-> "none"]

\* load_data(data_path): the header comes from the log of data_dirs[0], opened
\* without a check
scaling_plots_load_data(dirs) ==
  LET data_dirs == DataDirs(dirs, 1)
  IN  IF data_dirs = <<>> THEN [NoFrame EXCEPT !.err = "IndexError"]
      ELSE IF dirs[data_dirs[1]] # "log" THEN [NoFrame EXCEPT !.err = "FileNotFoundError"]
      ELSE LET st == LoadColumns(dirs, data_dirs, 1, NoFrame)
           IN  [st EXCEPT !.data = Reindex(st.data)]

InitScale ==
  /\ rank_dirs \in [{DirRanks[i] : i \in 1..Len(DirRanks)} -> DirStates]
  /\ scaling_data = <<>>
  /\ printed = <<>>
  /\ sc_err = "idle"
  /\ RunIdle
  /\ LinksIdle
  /\ PipeIdle
  /\ AFLIdle
  /\ L2Idle

LoadData ==
  /\ sc_err = "idle"
  /\ LET st == scaling_plots_load_data(rank_dirs)
     IN  /\ scaling_data' = st.data
         /\ printed' = st.printed
         /\ sc_err' = st.err
  /\ UNCHANGED <<rank_dirs, pipeVars, aflVars, l2Vars, linkVars, concVars, mainVars, runVars>>

NextScale == LoadData

SpecScale == InitScale /\ [][NextScale]_vars

\* ------------------------------------------------------- the Cholla runners
\* direct cholla_runner calls per run
MaxCalls == 2

\* the files one Cholla run writes at fixed names in the run directory
FixedNames == {"0.h5.0", "1.h5.0", "run_output.log", "run_timing.log"}

\* the snapshots a run with a small outstep writes after 1.h5.0
LaterSnapshots == {"2.h5.0"}

\* how the executable can end: every output written, stopped after the first
\* snapshot, or nothing written
Outcomes == {"ok", "partial", "fail"}

\* the files a run of the executable leaves in the run directory
Written(fn, outcome) ==
  IF outcome = "ok"
    THEN FixedNames \cup (IF fn = "advecting-field-loop" THEN LaterSnapshots ELSE {})
  ELSE IF outcome = "partial" THEN {"0.h5.0", "run_output.log"}
  ELSE {}

\* os.system(command): the exit status is dropped, the files written stay
os_system(run, written, it) ==
  [name \in DOMAIN run \cup written |-> IF name \in written THEN it ELSE run[name]]

Remove(d, k) == [kk \in DOMAIN d \ {k} |-> d[kk]]

\* f'{filename}.h5' in the data directory
DataName(filename) == Append(filename, ".h5")

\* Path.rename and Path.unlink that pass over a missing file
rename_missing_ok(st, src, dst) ==
  IF src \notin DOMAIN st.run THEN st
  ELSE [run |-> Remove(st.run, src),
        data |-> Put(st.data, dst, <<st.run[src], src>>),
        err |-> "none",
        lost |-> st.lost \cup (IF dst \in DOMAIN st.data THEN {st.data[dst]} ELSE {})]

\* Path.rename that keeps both files when the target exists
rename_beside(st, src, dst) ==
  IF src \notin DOMAIN st.run THEN [st EXCEPT !.err = "FileNotFoundError"]
  ELSE [run |-> Remove(st.run, src),
        data |-> IF dst \in DOMAIN st.data THEN st.data
                 ELSE Put(st.data, dst, <<st.run[src], src>>),
        err |-> "none",
        lost |-> st.lost]

\* Path.rename: the source must exist, an existing target is replaced
rename(st, src, dst) ==
  IF src \notin DOMAIN st.run THEN [st EXCEPT !.err = "FileNotFoundError"]
  ELSE [run |-> Remove(st.run, src),
        data |-> Put(st.data, dst, <<st.run[src], src>>),
        err |-> "none",
        lost |-> st.lost \cup (IF dst \in DOMAIN st.data THEN {st.data[dst]} ELSE {})]

\* Path.unlink: the file must exist
unlink(st, name) ==
  IF name \notin DOMAIN st.run THEN [st EXCEPT !.err = "FileNotFoundError"]
  ELSE [st EXCEPT !.run = Remove(st.run, name)]

Rename(src, dst) == <<"rename", src, dst>>
Unlink(name) == <<"unlink", name>>

\* the file statements of a runner, in order, up to the first that raises
RECURSIVE FileOps(_, _, _)
FileOps(ops, i, st) ==
  IF i > Len(ops) \/ st.err # "none" THEN st
  ELSE FileOps(ops, i + 1,
               IF ops[i][1] = "rename" THEN rename(st, ops[i][2], ops[i][3])
               ELSE unlink(st, ops[i][2]))

\* cholla_runner that leaves the log files in the run directory
cholla_runner_keeps_logs(st, reconstructor, move_initial, move_final, initial_filename, final_filename, written, it) ==
  IF ~(reconstructor = "ppmc" \/ reconstructor = "plmc")
    THEN [st EXCEPT !.err = "ValueError"]
  ELSE FileOps(<<IF move_initial THEN Rename("0.h5.0", DataName(initial_filename))
                 ELSE Unlink("0.h5.0"),
                 IF move_final THEN Rename("1.h5.0", DataName(final_filename))
                 ELSE Unlink("1.h5.0")>>,
               1, [st EXCEPT !.run = os_system(st.run, written, it)])

cholla_runner(st, reconstructor, move_initial, move_final, initial_filename, final_filename, written, it) ==
  IF ~(reconstructor = "ppmc" \/ reconstructor = "plmc")
    THEN [st EXCEPT !.err = "ValueError"]
  ELSE FileOps(<<IF move_initial THEN Rename("0.h5.0", DataName(initial_filename))
                 ELSE Unlink("0.h5.0"),
                 IF move_final THEN Rename("1.h5.0", DataName(final_filename))
                 ELSE Unlink("1.h5.0"),
                 Unlink("run_output.log"),
                 Unlink("run_timing.log")>>,
               1, [st EXCEPT !.run = os_system(st.run, written, it)])

\* target.stem without its .h5 suffix
Stem(name) == IF name = "0.h5.0" THEN "0" ELSE IF name = "1.h5.0" THEN "1" ELSE "2"

\* (shared_tools.repo_root/'python').glob('*.h5.*')
Glob(run) == DOMAIN run \cap ({"0.h5.0", "1.h5.0"} \cup LaterSnapshots)

RECURSIVE MoveRest(_, _)
MoveRest(st, res) ==
  IF Glob(st.run) = {} \/ st.err # "none" THEN st
  ELSE LET target == CHOOSE name \in Glob(st.run) : TRUE
       IN  MoveRest(rename(st, target, DataName(<<"afl_n", res, Stem(target)>>)), res)

\* one iteration of the loop of advecting-field-loop runCholla
afl_iteration(st, res, written, it) ==
  LET moved == cholla_runner(st, "ppmc", TRUE, TRUE,
                             <<"afl_n", res, "0">>, <<"afl_n", res, "1">>, written, it)
  IN  IF moved.err # "none" THEN moved ELSE MoveRest(moved, res)

\* one iteration of the loops of linear-wave-convergence runCholla
linear_wave_iteration(st, combo, written, it) ==
  FileOps(<<Rename("0.h5.0", DataName(<<combo[1], combo[2], combo[3], "initial">>)),
            Rename("1.h5.0", DataName(<<combo[1], combo[2], combo[3], "final">>))>>,
          1, [st EXCEPT !.run = os_system(st.run, written, it)])

\* one iteration of the loop of shock-tubes runCholla
shock_tubes_iteration(st, shock_tube, written, it) ==
  FileOps(<<Rename("1.h5.0", DataName(<<shock_tube>>)),
            Unlink("0.h5.0"),
            Unlink("run_output.log"),
            Unlink("run_timing.log")>>,
          1, [st EXCEPT !.run = os_system(st.run, written, it)])

\* the lists shock-tubes main leaves in shock_tubes before runCholla
TubeSweeps ==
  {shock_tubes} \cup
  {t \in TubeLists : /\ t # <<>>
                     /\ t # <<"all">>
                     /\ \A i \in 1..Len(t) : InList(t[i], shock_tubes)}

\* the (reconstructor, wave, resolution) triples in the order of the loops
LinearWaveSweep == [p \in 1..NumCombos |-> Combo(p)]

Sweeps ==
  {[fn |-> "cholla_runner", items |-> <<>>, i |-> 1],
   [fn |-> "advecting-field-loop", items |-> AFLResolutions, i |-> 1],
   [fn |-> "linear-wave-convergence", items |-> LinearWaveSweep, i |-> 1]}
  \cup {[fn |-> "shock-tubes", items |-> t, i |-> 1] : t \in TubeSweeps}

NoLaunch == [it |-> 0, outcome |-> "none", stale |-> {}, args |-> <<>>]

\* the names a caller passes as initial_filename and final_filename
Filenames == {<<"initial">>, <<"final">>}

InitRun ==
  /\ rundir = <<>>
  /\ datadir = <<>>
  /\ sweep \in Sweeps
  /\ rerr = "none"
  /\ launch = NoLaunch
  /\ lost = {}
  /\ LinksIdle
  /\ PipeIdle
  /\ AFLIdle
  /\ L2Idle
  /\ ScaleIdle

Files == [run |-> rundir, data |-> datadir, err |-> "none", lost |-> lost]

\* the runner leaves st behind after the executable ended with outcome
Returns(st, outcome, args) ==
  /\ rundir' = st.run
  /\ datadir' = st.data
  /\ rerr' = st.err
  /\ lost' = st.lost
  /\ launch' = IF st.err = "ValueError" THEN launch
               ELSE [it |-> launch.it + 1, outcome |-> outcome,
                     stale |-> DOMAIN rundir, args |-> args]
  /\ sweep' = [sweep EXCEPT !.i = sweep.i + 1]
  /\ UNCHANGED <<pipeVars, aflVars, l2Vars, linkVars, concVars, mainVars, scaleVars>>

\* a caller calls cholla_runner
ChollaRunner ==
  /\ sweep.fn = "cholla_runner"
  /\ sweep.i <= MaxCalls
  /\ rerr = "none"
  /\ \E reconstructor \in {"ppmc", "plmc", "pcm"}, move_initial \in BOOLEAN,
        move_final \in BOOLEAN, initial_filename \in Filenames,
        final_filename \in Filenames, outcome \in Outcomes :
       Returns(cholla_runner(Files, reconstructor, move_initial, move_final,
                         initial_filename, final_filename,
                         Written(sweep.fn, outcome), launch.it + 1),
           outcome,
           [move_initial |-> move_initial, move_final |-> move_final,
            initial_filename |-> initial_filename,
            final_filename |-> final_filename])

\* a runCholla loop of a script runs its next iteration
Sweeping(fn) ==
  /\ sweep.fn = fn
  /\ sweep.i <= Len(sweep.items)
  /\ rerr = "none"

AFLRunCholla ==
  /\ Sweeping("advecting-field-loop")
  /\ \E outcome \in Outcomes :
       Returns(afl_iteration(Files, sweep.items[sweep.i],
                         Written(sweep.fn, outcome), launch.it + 1),
           outcome, <<>>)

LinearWaveRunCholla ==
  /\ Sweeping("linear-wave-convergence")
  /\ \E outcome \in Outcomes :
       Returns(linear_wave_iteration(Files, sweep.items[sweep.i],
                                 Written(sweep.fn, outcome), launch.it + 1),
           outcome, <<>>)

ShockTubesRunCholla ==
  /\ Sweeping("shock-tubes")
  /\ \E outcome \in Outcomes :
       Returns(shock_tubes_iteration(Files, sweep.items[sweep.i],
                                 Written(sweep.fn, outcome), launch.it + 1),
           outcome, <<>>)

NextRun ==
  \/ ChollaRunner
  \/ AFLRunCholla
  \/ LinearWaveRunCholla
  \/ ShockTubesRunCholla

SpecRun == InitRun /\ [][NextRun]_vars

\* ================================================================== claims
IsCentered == CenteredKeys \subseteq DOMAIN data
IsDerived == err = "none" /\ DerivedKeys \subseteq DOMAIN data

\* C1: after center_magnetic_fields each centred magnetic field is exactly one
\* shorter than its raw field along its own axis and as long as the raw field
\* along the two other axes.
C1_CenteredShape ==
  IsCentered =>
    \A axis \in 1..3 : \A i \in 1..3 :
      data[CenteredKey(axis)].shape[i] =
        IF i = axis THEN data[RawKey(axis)].shape[i] - 1 ELSE data[RawKey(axis)].shape[i]

\* the fields were centred on a grid with more than one cell along every axis
C1_Witness ==
  /\ IsCentered
  /\ \A i \in 1..3 : data["density"].shape[i] > 1
  /\ data["magnetic_y_centered"].shape = data["density"].shape

\* C2: the centred value at cell k is the average of the raw face values at k
\* and k+1 along the component's own axis, the other two indices equal.
C2_CenteredValue ==
  IsCentered =>
    \A axis \in 1..3 :
      \A ix \in Idx(data[CenteredKey(axis)].shape) :
        data[CenteredKey(axis)].at[ix] =
          FDiv(FAdd(data[RawKey(axis)].at[ix], data[RawKey(axis)].at[Shift(ix, axis)]), Two)

\* every component was centred over a pair of faces holding different values
C2_Witness ==
  /\ IsCentered
  /\ \A axis \in 1..3 :
       \E ix \in Idx(data[CenteredKey(axis)].shape) :
         /\ data[RawKey(axis)].at[ix] # data[RawKey(axis)].at[Shift(ix, axis)]
         /\ data[CenteredKey(axis)].at[ix] # Zero

\* C3: after compute_derived_quantities total_pressure is, in every cell, the
\* sum of the gas_pressure and magnetic_energy the same call stored.
C3_TotalPressure ==
  IsDerived =>
    /\ data["total_pressure"].shape = data["gas_pressure"].shape
    /\ \A ix \in Idx(data["total_pressure"].shape) :
         data["total_pressure"].at[ix] =
           FAdd(data["gas_pressure"].at[ix], data["magnetic_energy"].at[ix])

\* the quantities were derived and some cell holds finite non-zero terms
C3_Witness ==
  /\ IsDerived
  /\ \E ix \in Idx(data["total_pressure"].shape) :
       /\ IsFinite(data["gas_pressure"].at[ix])
       /\ data["gas_pressure"].at[ix] # Zero
       /\ data["magnetic_energy"].at[ix] # Zero

\* energy recomputed from the outputs by the inverse of the equation of state
EnergyFromPressure(ix) ==
  FAdd(FAdd(FDiv(data["gas_pressure"].at[ix], FSub(gam, One)),
            FMul(data["density"].at[ix], data["spec_kinetic"].at[ix])),
       data["magnetic_energy"].at[ix])

\* C4 as stated: in every cell the energy recomputed from the outputs is the
\* input energy.
C4_Original ==
  IsDerived =>
    \A ix \in Idx(data["energy"].shape) : EnergyFromPressure(ix) = data["energy"].at[ix]

\* C4 as amended: in every cell whose density is not zero the energy
\* recomputed from the outputs is the input energy.
C4_EnergyRecovered ==
  IsDerived =>
    \A ix \in Idx(data["energy"].shape) :
      data["density"].at[ix] # Zero => EnergyFromPressure(ix) = data["energy"].at[ix]

\* the quantities were derived for a cell with density, motion and field
C4_Witness ==
  /\ IsDerived
  /\ \E ix \in Idx(data["energy"].shape) :
       /\ data["density"].at[ix] # Zero
       /\ data["spec_kinetic"].at[ix] # Zero
       /\ data["magnetic_energy"].at[ix] # Zero
       /\ data["gas_pressure"].at[ix] # Zero

\* load_data has stored the diagnostics of snapshot i of resolution key
Filled(key, i) == key < ld_res \/ (key = ld_res /\ i < ld_i)

FilledSnapshots == {n \in DOMAIN dir : Filled(n[1], n[2])}

IsUniform(a) == \A ix \in Idx(a.shape) : a.at[ix] = a.at[<<0, 0, 0>>]

\* C5 as stated: the divergence stored for a snapshot is the maximum over all
\* cells of the absolute value of the summed finite-difference divergence.
C5_MaxAbsDivergence ==
  \A n \in FilledSnapshots :
    divergence[n[1]][n[2] + 1] = ArrMax(ArrAbs(DivergenceSum(TempData(dir[n]))))

\* C6: for a snapshot whose magnetic field is uniform in each component the
\* stored divergence is zero.
C6_UniformDivergenceZero ==
  \A n \in FilledSnapshots :
    (\A axis \in 1..3 : IsUniform(dir[n].datasets[RawKey(axis)]))
      => divergence[n[1]][n[2] + 1] = Zero

\* the diagnostics of a uniform, non-zero field on a grid of several cells
\* were stored
C6_Witness ==
  \E n \in FilledSnapshots :
    /\ \A axis \in 1..3 : IsUniform(dir[n].datasets[RawKey(axis)])
    /\ \E axis \in 1..3 : dir[n].datasets[RawKey(axis)].at[<<0, 0, 0>>] # Zero
    /\ Size(dir[n].datasets["density"]) > 1

AllAre(a, v) == \A ix \in Idx(a.shape) : a.at[ix] = v

\* the snapshot of the worked example: 4 x 4 x 4, density 1, no momentum,
\* Bx = 1 and By = Bz = 0 on all faces
IsExample(f) ==
  /\ f["density"].shape = ExampleRes
  /\ AllAre(f["density"], One)
  /\ AllAre(f["momentum_x"], Zero) /\ AllAre(f["momentum_y"], Zero) /\ AllAre(f["momentum_z"], Zero)
  /\ AllAre(f["magnetic_x"], One) /\ AllAre(f["magnetic_y"], Zero) /\ AllAre(f["magnetic_z"], Zero)

\* C9: for the snapshot of the worked example the pipeline gives
\* magnetic_energy 0.5 and spec_kinetic 0 in every cell, and the divergence
\* diagnostic is 0.
C9_Example ==
  /\ (IsDerived /\ IsExample(data)) =>
       /\ data["magnetic_energy"].shape = ExampleRes
       /\ AllAre(data["magnetic_energy"], Half)
       /\ data["spec_kinetic"].shape = ExampleRes
       /\ AllAre(data["spec_kinetic"], Zero)
  /\ \A n \in FilledSnapshots :
       IsExample(dir[n].datasets) => divergence[n[1]][n[2] + 1] = Zero

\* the script ran to its end on the snapshots of the worked example
C9_Witness ==
  /\ pc = "done"
  /\ IsDerived /\ IsExample(data)
  /\ \A n \in DOMAIN dir : IsExample(dir[n].datasets) /\ Filled(n[1], n[2])

\* computeL2Norm has appended the norm of iteration p
Processed == {p \in 1..NumCombos : p < l2_pos}

\* the norm appended by iteration p: the series of its key holds one entry
\* per resolution already processed
NormOf(p) == l2norms[SeriesKey(Combo(p))][((p - 1) % Len(resolutions)) + 1]

InitialOf(p) == l2files[Combo(p)].initial
FinalOf(p) == l2files[Combo(p)].final

\* C7: when the initial and final snapshots hold identical datasets the norm
\* appended for them is exactly zero.
C7_IdenticalSnapshotsZero ==
  \A p \in Processed : InitialOf(p) = FinalOf(p) => NormOf(p) = <<0, 1, 1>>

\* a norm was appended for two identical snapshots that are not all zero,
\* and another, non-zero, for two different snapshots
C7_Witness ==
  /\ \E p \in Processed :
       /\ InitialOf(p) = FinalOf(p)
       /\ \E ix \in Idx(InitialOf(p)["density"].shape) : InitialOf(p)["density"].at[ix] # Zero
  /\ \E q \in Processed : InitialOf(q) # FinalOf(q) /\ NormOf(q) # <<0, 1, 1>>

\* the sum of the values of a function
RECURSIVE FnSum(_)
FnSum(f) ==
  IF DOMAIN f = {} THEN Zero
  ELSE LET x == CHOOSE y \in DOMAIN f : TRUE
       IN  FAdd(f[x], FnSum([y \in DOMAIN f \ {x} |-> f[y]]))

\* sum of the absolute cell differences of a dataset, over its cell count
MeanAbsDiff(a, b) ==
  FDiv(FnSum([ix \in Idx(a.shape) |-> FAbs(FSub(a.at[ix], b.at[ix]))]),
       <<Cardinality(Idx(a.shape)), 1>>)

\* C8: the norm is the square root of the sum, over every dataset of the
\* initial snapshot, of the square of (the sum of absolute cell differences
\* divided by the number of cells of the dataset).
C8_NormFormula ==
  \A p \in Processed :
    NormOf(p) =
      FSqrt(FnSum([fld \in DOMAIN InitialOf(p) |->
                     FSquare(MeanAbsDiff(InitialOf(p)[fld], FinalOf(p)[fld]))]))

\* a norm that is not a rational number and one that is were appended for
\* snapshots of several cells that differ
C8_Witness ==
  /\ \E p \in Processed : NormOf(p)[3] = 2 /\ Size(InitialOf(p)["density"]) > 1
  /\ \E q \in Processed : NormOf(q)[3] = 1 /\ NormOf(q) # <<0, 1, 1>>

\* C10: a get of a key that update_plot_entry has set prints the link of the
\* key's last update, whatever the table held before, and raises nothing.
C10_RoundTrip ==
  (got # "none" /\ got \in DOMAIN stored) =>
    /\ lerr = "none"
    /\ out = Href(stored[got])

\* a key was set in a table that held another key, then got
C10_Witness ==
  /\ got # "none" /\ got \in DOMAIN stored
  /\ out # <<>>
  /\ \E k \in DOMAIN unpickle_dictionary(pkl) : k \notin DOMAIN stored

\* ---------------------------------------------------------------- C11
\* the table a get looks into; none while links.pkl does not exist
NotInTable(key) == pkl = <<>> \/ key \notin DOMAIN unpickle_dictionary(pkl)

\* C11: a get of a key that is not in the table, the empty table and the
\* table not yet created included, gives a not-found result and raises
\* nothing.
C11_NotFoundNoRaise ==
  (got # "none" /\ NotInTable(got)) => lerr = "none"

\* ---------------------------------------------------------------- C12
\* C12: a step of update_plot_entry changes the entry of at most one key, the
\* key it was given, which then holds the link just stored; every key of the
\* table before the step is in the table after it with the value it had, and
\* links.pkl holds the old entries and the new one together.
C12_OnlyKeyChanges ==
  [][LET before == unpickle_dictionary(pkl)
         after == unpickle_dictionary(pkl')
         touched == {k \in DOMAIN after :
                       k \notin DOMAIN before \/ after[k] # before[k]}
     IN  /\ DOMAIN before \subseteq DOMAIN after
         /\ Cardinality(touched) <= 1
         /\ \A k \in touched :
              /\ k \in DOMAIN stored'
              /\ stored'[k] = after[k]
              /\ pkl' = pickle_dictionary(Put(before, k, after[k]))
         /\ stored' # stored => /\ pkl' # <<>>
                                /\ \A k \in DOMAIN stored' :
                                     stored'[k] # (IF k \in DOMAIN stored THEN stored[k] ELSE <<>>)
                                       => k \in DOMAIN after /\ after[k] = stored'[k]]_vars

\* the last call was an update that set one key of a table of two: the other
\* key, never set by an update, is still there
C12_Witness ==
  /\ got = "none" /\ lerr = "none"
  /\ Cardinality(DOMAIN stored) = 1
  /\ DOMAIN unpickle_dictionary(pkl) = LinkKeys
  /\ \E k \in DOMAIN stored : unpickle_dictionary(pkl)[k] = stored[k]

\* ---------------------------------------------------------------- C13
\* the dataset load_conserved_data reads for a raw key
RawOf(f, key) == IF key = "energy" THEN f.datasets.Energy ELSE f.datasets[key]

\* an array after the slice_data calls of locations cuts[i..]
RECURSIVE CutAll(_, _, _)
CutAll(a, cuts, i) ==
  IF i > Len(cuts) THEN a ELSE CutAll(Squeeze(Sliced(a, cuts[i])), cuts, i + 1)

AllKeys == {KeyOrder[i] : i \in 1..Len(KeyOrder)}

\* C13 as stated: after any sequence of center_magnetic_fields,
\* compute_velocities, compute_derived_quantities and slice_data the eight
\* raw entries hold the values the loader produced.
C13_Original ==
  (Loaded /\ err = "none") => \A k \in RawKeys : data[k] = RawOf(file, k)

\* C13 amended: the three transforms leave the eight raw entries as loaded
\* and add only new keys; slice_data replaces each raw entry by its squeezed
\* slice, so that a raw entry holds the loaded array cut by the slice_data
\* calls made so far.
C13_RawKept ==
  (Loaded /\ err # "IndexError") =>
     /\ \A k \in RawKeys : k \in DOMAIN data /\ data[k] = CutAll(RawOf(file, k), cut, 1)
     /\ cut = <<>> => \A k \in RawKeys : data[k] = RawOf(file, k)
     /\ DOMAIN data \subseteq AllKeys

\* the three transforms and a slice_data call were applied, and the slice
\* changed the density entry
C13_Witness ==
  /\ IsDerived
  /\ Len(cut) = 1
  /\ data["density"] # RawOf(file, "density")
  /\ data["magnetic_x"] = CutAll(RawOf(file, "magnetic_x"), cut, 1)

\* ---------------------------------------------------------------- C14
\* the metadata keys of the flags that are set
FlagKeys(a) ==
  {k \in {"gamma", "resolution", "time", "dx"} :
     \/ k = "gamma" /\ a.load_gamma
     \/ k = "resolution" /\ a.load_resolution
     \/ k = "time" /\ a.load_time
     \/ k = "dx" /\ a.load_dx}

\* C14: the mapping load_conserved_data returns has exactly the eight raw
\* keys and, for each of the flags gamma, resolution, time and dx, the
\* metadata key if and only if the flag was set.
C14_LoadedKeys ==
  [][(~Loaded /\ Loaded') => DOMAIN data' = RawKeys \cup FlagKeys(largs')]_vars

\* a load with the time flag alone has returned, and nothing was applied yet
C14_Witness ==
  /\ Loaded
  /\ largs = [load_gamma |-> FALSE, load_resolution |-> FALSE,
              load_time |-> TRUE, load_dx |-> FALSE]
  /\ DOMAIN data = RawKeys \cup {"time"}

\* ---------------------------------------------------------------- C15
\* C15: when the snapshot file does not exist, load_conserved_data ends with
\* the error of the open, after one attempt to open the file, and no mapping,
\* not even a partial one, is returned.
C15_MissingFile ==
  (~Exists(file) /\ opens > 0) =>
     /\ err = "FileNotFoundError"
     /\ opens = 1
     /\ data = EmptyDict

\* the load of a name that is no file was called and has raised
C15_Witness ==
  /\ file = NoFile
  /\ opens = 1
  /\ err # "none"
  /\ largs # <<>>

\* ---------------------------------------------------------------- C16
Axes == {"x", "y", "z"}
MomentumKey(axis) == IF axis = "x" THEN "momentum_x" ELSE IF axis = "y" THEN "momentum_y" ELSE "momentum_z"
VelocityKey(axis) == IF axis = "x" THEN "velocity_x" ELSE IF axis = "y" THEN "velocity_y" ELSE "velocity_z"

HasVelocities == VelocityKeys \subseteq DOMAIN data

\* C16: after compute_velocities, in each cell of non-zero density the
\* velocity is finite and is the momentum divided by the density (velocity
\* times density gives the momentum back); in each cell of zero density the
\* velocity is not finite; the call raises nothing.
C16_Velocities ==
  HasVelocities =>
    \A axis \in Axes : \A ix \in Idx(data["density"].shape) :
      LET rho == data["density"].at[ix]
          m == data[MomentumKey(axis)].at[ix]
          v == data[VelocityKey(axis)].at[ix]
      IN  /\ rho # Zero => IsFinite(v) /\ FMul(v, rho) = m /\ v = FDiv(m, rho)
          /\ rho = Zero => ~IsFinite(v)
          /\ err \in {"none", "KeyError"}

\* compute_velocities has returned on a snapshot with a cell of zero density
\* and a cell whose density is neither 0 nor 1 and whose momentum is not 0
C16_Witness ==
  /\ HasVelocities /\ err = "none"
  /\ \E ix \in Idx(data["density"].shape) : data["density"].at[ix] = Zero
  /\ \E ix \in Idx(data["density"].shape) :
       /\ data["density"].at[ix] \notin {Zero, One}
       /\ data["momentum_x"].at[ix] # Zero
       /\ data["velocity_x"].at[ix] # data["momentum_x"].at[ix]

\* ---------------------------------------------------------------- C17
GammaSet == {Gammas[i] : i \in 1..Len(Gammas)}

\* C17: from every mapping the pipeline reaches, whatever calls produced it,
\* each of center_magnetic_fields, compute_velocities and
\* compute_derived_quantities (with a given gamma) applied to its own result
\* gives that result again.
C17_Idempotent ==
  (Loaded /\ err = "none") =>
    /\ center_call(center_call(data).data) = center_call(data)
    /\ compute_velocities(compute_velocities(data)) = compute_velocities(data)
    /\ \A g \in GammaSet :
         compute_derived_quantities(compute_derived_quantities(data, g).data, g)
           = compute_derived_quantities(data, g)

\* the three transforms were applied to a snapshot with a cell whose density
\* is neither 0 nor 1 and whose momentum is not 0, and with a magnetic field
\* that is not uniform along x
C17_Witness ==
  /\ IsDerived /\ IsCentered /\ HasVelocities
  /\ \E ix \in Idx(data["density"].shape) :
       /\ data["density"].at[ix] \notin {Zero, One}
       /\ data["momentum_y"].at[ix] # Zero
  /\ \E ix \in Idx(data["density"].shape) :
       data["magnetic_x_centered"].at[ix] # data["magnetic_x"].at[ix]

\* ---------------------------------------------------------------- C18
\* C18: as long as no update_plot_entry call has read the table while another
\* call was between its read and its write (the calls so far ran one after
\* another), the table holds, for every key ever set, the link of its last
\* set.  The witness is the other half: two calls that both read before
\* either writes end with a key that was set missing from the table.
C18_SerializedSafe ==
  ~overlapped =>
     \A k \in DOMAIN stored :
        /\ pkl # <<>>
        /\ k \in DOMAIN Unpickle(pkl[1])
        /\ Unpickle(pkl[1])[k] = stored[k]

\* two overlapping calls set the two keys, both have returned, and the table
\* holds only one of the two keys
C18_Witness ==
  /\ overlapped
  /\ \A p \in Procs : procs[p].pc = "idle"
  /\ DOMAIN stored = LinkKeys
  /\ pkl # <<>>
  /\ Cardinality(DOMAIN Unpickle(pkl[1])) = 1

\* ---------------------------------------------------------------- C19
\* C19: whatever the command lines of the runs, no key is passed to
\* update_plot_entry by two different scripts.
C19_OneWriter ==
  \A key \in DOMAIN writers : Cardinality(writers[key]) = 1

\* two runs of different scripts have each passed a key, one of them a tube
C19_Witness ==
  /\ runs = 2
  /\ \E k1 \in DOMAIN writers, k2 \in DOMAIN writers :
       /\ writers[k1] # writers[k2]
       /\ InList(k1, shock_tubes)
       /\ k2 \in DOMAIN unpickle_dictionary(pkl)

\* ---------------------------------------------------------------- C20
\* the call that is the figure phase of a script
FigureCall(script) ==
  CASE script = "advecting-field-loop" -> "plotAFL"
    [] script = "blast-wave" -> "plotBlastWave"
    [] script = "linear-wave-convergence" -> "plotL2Norm"
    [] script = "orszag-tang-vortex" -> "plotOTV"
    [] OTHER -> "plotShockTubes"

Ran(name) == \E i \in 1..Len(ran) : ran[i][1] = name

\* C20: in a run of a script that has the options -r and -f and in which no
\* call failed, main calls runCholla if and only if -r was given and runs
\* the figure phase if and only if -f was given.
C20_FlagsRunPhases ==
  (exit \in {"ok", "CalledProcessError"} /\ cmd.script # "scaling_plots") =>
     /\ cmd.opts.r # "absent" <=> Ran("runCholla")
     /\ cmd.opts.f # "absent" <=> Ran(FigureCall(cmd.script))

\* ---------------------------------------------------------------- C21
\* the executable ended without writing any file
RunFailed == launch.outcome = "fail"

\* the data directory holds an output of the last invocation
KeptOfLast == \E name \in DOMAIN datadir : datadir[name][1] = launch.it

\* C21 as stated: when the executable fails and leaves no output file, the
\* runner (cholla_runner or a script's runCholla) raises no error; the failure
\* is left for the loading that follows.
C21_RunnerSilent == RunFailed => rerr = "none"

\* C21: when the executable fails and leaves no output file, the runner never
\* looks at the exit status, but its first rename or unlink of a fixed-name
\* output raises FileNotFoundError inside the runner, and nothing of that run
\* reaches the data directory.
C21_RunnerRaises == RunFailed => rerr = "FileNotFoundError" /\ ~KeptOfLast

\* the executable failed in the second iteration of a runCholla loop
C21_Witness ==
  /\ RunFailed
  /\ sweep.fn = "linear-wave-convergence"
  /\ launch.it = 2
  /\ rerr = "FileNotFoundError"

\* ---------------------------------------------------------------- C22
\* a runCholla loop of a script is executing
InSweep == sweep.fn \in {"advecting-field-loop", "linear-wave-convergence", "shock-tubes"}

\* when the executable was last invoked, the run directory held no file of an
\* earlier iteration
C22_CleanAtLaunch == InSweep => launch.stale = {}

\* no rename of a sweep replaced an output kept by an earlier iteration
C22_DistinctNames == InSweep => lost = {}

\* C22: in every sweep loop, whenever the simulation is invoked for an
\* iteration no output file of an earlier iteration is still at a fixed name
\* in the run directory, and no iteration's kept output is replaced by a later
\* iteration.
C22_NoOverwrite == C22_CleanAtLaunch /\ C22_DistinctNames

\* ---------------------------------------------------------------- C23
\* call i of the last run wrote a figure file
Renders(i) == SavedFigures(ran[i][1]) > 0

\* call i of the last run wrote a Link Table entry
WritesEntry(i) == ran[i][1] = "update_plot_entry"

RECURSIVE CountCalls(_, _)
CountCalls(i, entries) ==
  IF i > Len(ran) THEN 0
  ELSE CountCalls(i + 1, entries)
       + (IF entries THEN (IF WritesEntry(i) THEN 1 ELSE 0) ELSE SavedFigures(ran[i][1]))

\* C23: in a script run that ended normally, an entry is written only after a
\* figure was rendered, every rendered figure is followed by the writing of an
\* entry, and no more entries are written than figures were rendered.
C23_EntryPerFigure ==
  exit = "ok" =>
    /\ \A i \in 1..Len(ran) : WritesEntry(i) => \E j \in 1..(i - 1) : Renders(j)
    /\ \A j \in 1..Len(ran) : Renders(j) => \E i \in (j + 1)..Len(ran) : WritesEntry(i)
    /\ CountCalls(1, TRUE) <= CountCalls(1, FALSE)

\* ---------------------------------------------------------------- C24
\* computeL2Norm has reached its return statement
L2Returned == l2_pos = NumCombos + 1

\* C24: computeL2Norm returns one series per (reconstructor, wave) pair, each
\* series holds one scalar per resolution, and entry i of the series of a
\* pair is the norm of the snapshots of that pair at resolutions[i].
C24_SeriesPerPair ==
  L2Returned =>
    /\ DOMAIN l2norms = {<<reconstructors[a], waves[b]>> :
                           a \in 1..Len(reconstructors), b \in 1..Len(waves)}
    /\ \A k \in DOMAIN l2norms :
         /\ Len(l2norms[k]) = Len(resolutions)
         /\ \A i \in 1..Len(resolutions) :
              LET pair == l2files[<<k[1], k[2], resolutions[i]>>]
              IN  l2norms[k][i] = L2NormOf(pair.initial, pair.final)

\* computeL2Norm returned a series whose norms differ from one resolution to
\* the next
C24_Witness ==
  /\ L2Returned
  /\ \E k \in DOMAIN l2norms : l2norms[k][1] # l2norms[k][2]

\* ---------------------------------------------------------------- C25
\* the resolutions whose series load_data has divided by its first element
NormalisedKeys == {AFLResolutions[r] : r \in 1..(ld_res - 1)}

\* the sum of the values of f over the set S
RECURSIVE SumOver(_, _)
SumOver(f, S) ==
  IF S = {} THEN Zero
  ELSE LET x == CHOOSE y \in S : TRUE
       IN  FAdd(f[x], SumOver(f, S \ {x}))

\* the mean over the cells of Bx_c^2 + By_c^2 + Bz_c^2 of snapshot n
MeanBSquared(n) ==
  LET td == TempData(dir[n])
      bx == td["magnetic_x_centered"]
      by == td["magnetic_y_centered"]
      bz == td["magnetic_z_centered"]
      sq == [ix \in Idx(bx.shape) |->
               FAdd(FAdd(FSquare(bx.at[ix]), FSquare(by.at[ix])), FSquare(bz.at[ix]))]
      xs == 0..(bx.shape[1] - 1)
      ys == 0..(bx.shape[2] - 1)
      zs == 0..(bx.shape[3] - 1)
      planes == [i \in xs |->
                   SumOver([j \in ys |-> SumOver([k \in zs |-> sq[<<i, j, k>>]], zs)], ys)]
  IN  FDiv(SumOver(planes, xs), <<Size(bx), 1>>)

NonFinite(x) == x[2] = 0

\* C25: for every resolution the b_squared_avg series of load_data is the
\* mean of Bx_c^2 + By_c^2 + Bz_c^2 of each snapshot divided by that mean at
\* time index 0; its first element is 1 when the initial mean is not zero, and
\* when the initial mean is zero every element is inf or NaN.
C25_NormalisedByInitial ==
  \A key \in NormalisedKeys :
    LET initial == MeanBSquared(<<key, 0>>)
    IN  /\ \A i \in 0..(NumOutputs - 1) :
             b_squared_avg[key][i + 1] = FDiv(MeanBSquared(<<key, i>>), initial)
        /\ initial # Zero => b_squared_avg[key][1] = One
        /\ initial = Zero => \A i \in 1..NumOutputs : NonFinite(b_squared_avg[key][i])

\* a series was normalised by a non-zero initial mean that a later snapshot
\* does not share
C25_Witness ==
  \E key \in NormalisedKeys :
    /\ MeanBSquared(<<key, 0>>) # Zero
    /\ b_squared_avg[key][NumOutputs] # One

\* a series was normalised by an initial mean of zero and holds inf after
\* its first element
C25_WitnessZero ==
  \E key \in NormalisedKeys :
    /\ MeanBSquared(<<key, 0>>) = Zero
    /\ b_squared_avg[key][1] = NaN
    /\ b_squared_avg[key][NumOutputs] = PosInf

\* ---------------------------------------------------------------- C26
InSeq(x, s) == \E i \in 1..Len(s) : s[i] = x

\* load_data was called on a data set in which some rank directory has no
\* run_timing.log
LoadedWithMissingLog ==
  sc_err # "idle" /\ \E r \in DOMAIN rank_dirs : rank_dirs[r] = "no log"

\* C26: when load_data is called and some rank directory, the first in sorted
\* order included, has no run_timing.log, no exception is raised, a warning is
\* printed for each such directory, it contributes no column, and every
\* directory that has its log contributes its column.
C26_MissingLogSkipped ==
  LoadedWithMissingLog =>
    /\ sc_err = "none"
    /\ \A r \in DOMAIN rank_dirs :
         /\ rank_dirs[r] = "no log" =>
              InSeq(<<"not found", r>>, printed) /\ ~InSeq(r, scaling_data)
         /\ rank_dirs[r] = "log" => InSeq(r, scaling_data)

\* ---------------------------------------------------------------- C27
\* the last cholla_runner call returned normally
RunnerReturned == sweep.fn = "cholla_runner" /\ launch.it > 0 /\ rerr = "none"

\* the data directory holds, under f'{filename}.h5', the file the last run
\* wrote as src
KeptAs(filename, src) ==
  /\ DataName(filename) \in DOMAIN datadir
  /\ datadir[DataName(filename)] = <<launch.it, src>>

NoFixedNameLeft == DOMAIN rundir \cap FixedNames = {}

\* C27 as stated: after cholla_runner returns normally none of the four
\* fixed-name files is left in the run directory, the initial snapshot is in
\* the data directory under initial_filename iff move_initial, and the final
\* snapshot is there under final_filename iff move_final.
C27_Original ==
  RunnerReturned =>
    /\ NoFixedNameLeft
    /\ KeptAs(launch.args.initial_filename, "0.h5.0") <=> launch.args.move_initial
    /\ KeptAs(launch.args.final_filename, "1.h5.0") <=> launch.args.move_final

\* both snapshots were moved to one name
SameTarget ==
  /\ launch.args.move_initial
  /\ launch.args.move_final
  /\ launch.args.initial_filename = launch.args.final_filename

\* C27: after cholla_runner returns normally none of the four fixed-name
\* files is left in the run directory; the final snapshot is in the data
\* directory under final_filename iff move_final; the initial snapshot is
\* there under initial_filename iff move_initial, unless both snapshots were
\* moved to the same name, where the final snapshot has replaced it.
C27_FilesAfterReturn ==
  RunnerReturned =>
    /\ NoFixedNameLeft
    /\ KeptAs(launch.args.final_filename, "1.h5.0") <=> launch.args.move_final
    /\ KeptAs(launch.args.initial_filename, "0.h5.0")
         <=> (launch.args.move_initial /\ ~SameTarget)

\* a second call returned after moving only the initial snapshot, to the name
\* under which the first call had kept a file
C27_Witness ==
  /\ RunnerReturned
  /\ launch.it = 2
  /\ launch.args.move_initial /\ ~launch.args.move_final
  /\ lost # {}
  /\ KeptAs(launch.args.initial_filename, "0.h5.0")

\* ---------------------------------------------------------------- C28
\* center_magnetic_fields and compute_velocities were both applied to d
Prepared(d) == (CenteredKeys \cup VelocityKeys) \subseteq DOMAIN d

\* this step is a compute_derived_quantities call with a new gamma
DerivedCalled == err = "none" /\ gam' # gam

\* this step is a compute_derived_quantities call that raised
DerivedFailed == err = "none" /\ err' = "KeyError"

\* C28 as stated: in any order of pipeline calls compute_derived_quantities
\* succeeds only if both centring and velocities were applied before it, and
\* a call with a prerequisite missing fails with a lookup error and leaves
\* the mapping unchanged.
C28_Original ==
  [][/\ DerivedCalled => (err' = "none" <=> Prepared(data))
     /\ DerivedFailed => ~Prepared(data) /\ data' = data]_vars

\* C28: in any order of pipeline calls compute_derived_quantities succeeds
\* only if both centring and velocities were applied before it; a call with
\* a prerequisite missing fails with KeyError; it leaves the mapping
\* unchanged when the velocities are missing, and when only the centred
\* fields are missing it has already stored spec_kinetic, the one entry it
\* adds before it fails.
C28_FailsWithKeyError ==
  [][/\ DerivedCalled => (err' = "none" <=> Prepared(data))
     /\ DerivedFailed =>
          /\ ~Prepared(data)
          /\ IF VelocityKeys \subseteq DOMAIN data
               THEN /\ "spec_kinetic" \notin DOMAIN data
                    /\ DOMAIN data' = DOMAIN data \cup {"spec_kinetic"}
                    /\ \A key \in DOMAIN data : data'[key] = data[key]
                    /\ \A ix \in Idx(data["density"].shape) :
                         data'["spec_kinetic"].at[ix] =
                           FMul(Half, FAdd(FAdd(FSquare(data["velocity_x"].at[ix]),
                                                FSquare(data["velocity_y"].at[ix])),
                                           FSquare(data["velocity_z"].at[ix])))
             ELSE data' = data]_vars

\* compute_derived_quantities failed on a mapping with velocities and
\* without centred fields
C28_Witness ==
  /\ err = "KeyError"
  /\ VelocityKeys \subseteq DOMAIN data
  /\ ~(CenteredKeys \subseteq DOMAIN data)
  /\ "spec_kinetic" \in DOMAIN data

\* ---------------------------------------------------------------- C29
\* the entries load_conserved_data stores from the attributes of the file
MetadataKeys == {"resolution", "gamma", "time", "dx"}

\* the metadata entries of the mapping are the same after the step
MetadataKept ==
  \A key \in MetadataKeys \cap DOMAIN data :
    key \in DOMAIN data' /\ data'[key] = data[key]

\* C29 (values): no step of the pipeline, slice_data at any combination of
\* slice locations included, changes a metadata entry of the mapping.
C29_MetadataValuesKept == [][MetadataKept]_vars

\* C29: slice_data slices only the grid fields: on a loaded mapping that was
\* not sliced before, whatever metadata entries (resolution, gamma, time, dx)
\* it holds and whatever the slice locations, no step raises IndexError and
\* every step leaves each metadata entry as it was.
C29_SlicesOnlyFields ==
  [][(cut = <<>> /\ err = "none") => (err' # "IndexError" /\ MetadataKept)]_vars

\* ---------------------------------------------------------------- C30
\* the shared centring of component axis in the cell <<i, j, k>>
SharedCentered(axis, i, j, k) == data[CenteredKey(axis)].at[<<i, j, k>>]

\* orszag-tang-vortex loadData gives, for component axis, the shared centred
\* values of the plane z = nz // 2
OTVAgrees(axis) ==
  LET own == loadData(file)[RawKey(axis)]
  IN  /\ own.shape = <<file.attrs.dims[1], file.attrs.dims[2]>>
      /\ \A ix \in Idx(own.shape) :
           own.at[ix] = SharedCentered(axis, ix[1], ix[2], SliceIndex(file.attrs.dims[3]))

\* shock-tubes loadDataField gives, for component axis, the shared centred
\* values of the line y = ny // 2, z = nz // 2
ShockTubesAgrees(axis) ==
  LET own == loadDataField(file)[RawKey(axis)]
  IN  /\ own.shape = <<file.attrs.dims[1]>>
      /\ \A ix \in Idx(own.shape) :
           own.at[ix] = SharedCentered(axis, ix[1], SliceIndex(file.attrs.dims[2]),
                                       SliceIndex(file.attrs.dims[3]))

\* C30: for each magnetic component the script-local loaders (orszag-tang-
\* vortex loadData, shock-tubes loadDataField) return the values that
\* center_magnetic_fields followed by the same slice gives: the average of
\* the faces k and k + 1 along the component's own axis.
C30_LoadersAgree ==
  IsCentered => \A axis \in 1..3 : OTVAgrees(axis) /\ ShockTubesAgrees(axis)
====
